---- MODULE Spec2Model ----
(***************************************************************************)
(* A model of the fetch -> price -> combine pipeline of the catalog        *)
(* harvester (src/parser.py, src/tasks.py, src/celery_app.py), of its      *)
(* request adapter fetch_data, and of the caller that waits for the chain  *)
(* and saves its result (src/main.py, src/importer.py).                    *)
(*                                                                         *)
(* The module holds several specifications over the same variables: each   *)
(* runs one part of the program and keeps the variables of the other       *)
(* parts at their idle values.                                             *)
(*                                                                         *)
(* Python values are modelled as follows.                                  *)
(*   - a Product object is a record with cls = "Product";                  *)
(*   - a dict produced by asdict() is the same record without cls;         *)
(*   - a Python list is a sequence; a list nested in a list is a record    *)
(*     with cls = "list";                                                  *)
(*   - a dict key is a tagged value (PyInt / PyStr): Python's int 3 and    *)
(*     str "3" are different keys.                                         *)
(***************************************************************************)
EXTENDS Integers, Sequences, FiniteSets, TLC

(***************************************************************************)
(* Bounds of the model.  BATCH_SIZE and MAX_CONCURRENT_REQUESTS stand for  *)
(* the configuration values of src/config.py (200 and 5), scaled down so   *)
(* that several batches and a contended semaphore fit in the state space.  *)
(***************************************************************************)
BATCH_SIZE == 2
MAX_CONCURRENT_REQUESTS == 2
\* product ids offered to one concurrent fetch_prices run are 1..MaxId
MaxId == 5
\* length of the id sequences (with duplicates) given to the partition
MaxLen == 4
\* ids of those sequences are 1..MaxBatchId
MaxBatchId == 4
\* ids offered to a fetch_prices run against the full range of server answers
MaxRichId == 3

\* pages of the catalog, and goods listed on one page
MaxPages == 3
PerPage == 2
\* min_goods is drawn from 0..MaxGoods, the reported total_items from
\* 0..MaxGoods + 1
MaxGoods == 1
\* products given to one combine_product_and_prices call, and their ids
MaxCombineLen == 2
MaxCombineId == 2
MaxParamValue == 2
\* the words of a city or category id
MaxIdWords == 2

\* config.RETRIES
RETRIES == 3

\* a falsy active_offer_id: the key is absent (None) or 0
NoOffer == 0
\* an offer id the server may return although nobody asked for it
ForeignId == MaxId + MaxPages * PerPage + 1

Min(a, b) == IF a < b THEN a ELSE b

Range(s) == {s[i] : i \in DOMAIN s}

\* all orders in which the elements of S can be listed
Perms(S) ==
    {p \in [1..Cardinality(S) -> S] : \A i, j \in DOMAIN p : p[i] = p[j] => i = j}

----------------------------------------------------------------------------
(* Python dict keys *)

PyInt(n) == [tag |-> "int", int |-> n, str |-> ""]
PyStr(s) == [tag |-> "str", int |-> 0, str |-> s]

\* the empty dict
EmptyDict == [k \in {} |-> 0]

\* an assignment that keeps no other item of the dict
DictSetAlone(d, k, v) == [x \in {k} |-> v]

\* d[k] = v, as a dict assignment does
DictSet(d, k, v) == [x \in DOMAIN d \cup {k} |-> IF x = k THEN v ELSE d[x]]

----------------------------------------------------------------------------
(* State *)

\* one run of the chain fetch_products_task | fetch_prices_task |
\* combine_products_and_prices_task, and of fetch_products inside its first task
VARIABLES
    stage,          \* "NONE" (no chain), "FETCH_PENDING", "PRICE_PENDING",
                    \* "COMBINE_PENDING", "DONE", "FAILED"
    min_goods,      \* the argument of fetch_products
    f_pc,           \* position of fetch_products: "idle", "meta", "page1",
                    \* "gather", "returned", "raised"
    meta,           \* the totals of the first response, or that it was invalid
    total_pages,    \* the local total_pages
    page_pc,        \* position of each fetch_and_add_products call
    page_out,       \* how each page's request ended
    page_products,  \* what each fetch_and_add_products call returned
    goods,          \* the goods the remote side listed for each page
    list_requests,  \* the page numbers of the product-list requests sent
    fetched,        \* the value fetch_products returned
    msg_products,   \* the result of the fetch task, as the price task receives it
    msg_data,       \* the result of the price task, as the combine task receives it
    result          \* the result of the chain

fvars == <<stage, min_goods, f_pc, meta, total_pages, page_pc, page_out, page_products,
           goods, list_requests, fetched, msg_products, msg_data, result>>

\* one call of fetch_prices
VARIABLES
    product_ids,    \* the argument of fetch_prices
    kinds,          \* the answers the remote price endpoint may give per id
    pr_status,      \* "idle", "running", "raising", "returned", "raised"
    unique_offers,  \* list(set(product_ids))
    batches,        \* batch_ids of each fetch_price_batch task, in task order
    b_pc,           \* position of each task
    b_out,          \* how each task's request ended: "none", "ok" (processed),
                    \* "broke" (processing raised), "empty", "raise"
    permits,        \* the semaphore's value
    prices,         \* the shared dict the tasks write
    requests,       \* per task, the offers payloads it has POSTed
    srv,            \* what the remote side answered for each requested id
    pr_result       \* the value fetch_prices returned

pvars == <<product_ids, kinds, pr_status, unique_offers, batches, b_pc, b_out,
           permits, prices, requests, srv, pr_result>>

\* one call of combine_product_and_prices
VARIABLES
    c_pc,           \* "idle", "ready", "done"
    c_products,     \* the argument products
    c_prices,       \* the argument prices
    c_result        \* the value returned

cvars == <<c_pc, c_products, c_prices, c_result>>

\* one call of fetch_data
VARIABLES
    fd_pc,          \* "idle", "request", "sleep", "returned", "raised"
    params,         \* the argument params, a dict whose values may be None
    attempt,        \* the local attempt
    fd_requests,    \* the params of each session.request issued, in order
    fd_outcomes,    \* how each request ended, in order
    fd_return       \* "none", "body" (response.json()), "empty" ({})

dvars == <<fd_pc, params, attempt, fd_requests, fd_outcomes, fd_return>>

\* main.main after it submitted the chain, and the save_products task
VARIABLES
    m_pc,            \* "idle" (no caller), "waiting" (result.get), "saving"
                     \* (save_result.get), "saved", "no_products", "failed"
    m_raised_at,     \* the call whose exception main caught: "none",
                     \* "result.get", "save_result.get"
    m_products,      \* the value result.get returned
    filename,        \* the --filename argument, as its dot-separated parts
    save_dispatched, \* the number of save_products messages sent
    s_pc,            \* the save_products task: "none", "queued", "succeeded",
                     \* "failed"
    writers_run      \* the writers of importer.py that ran, with their records

mvars == <<m_pc, m_raised_at, m_products, filename, save_dispatched, s_pc, writers_run>>

\* two concurrent calls of get_products_with_prices and the broker between
\* their tasks
VARIABLES
    r_pair,         \* per run, its city_id and category_id
    r_stage,        \* per run, "NONE", "FETCH_PENDING", "PRICE_PENDING",
                    \* "COMBINE_PENDING", "DONE"
    r_queue,        \* the task messages waiting in the queues
    r_sent,         \* every task message published so far
    r_result        \* per run, the result of its chain

rvars == <<r_pair, r_stage, r_queue, r_sent, r_result>>

\* the second delivery of a task message of the chain
VARIABLES
    e_redelivered,  \* the stage whose message the broker delivered twice:
                    \* "none", "fetch", "price", "combine"
    e_first         \* what the first delivery saw and gave: the answers of
                    \* the remote side and the result of the chain

evars == <<e_redelivered, e_first>>

\* two calls of get_sign on the same key/value pairs
VARIABLES
    sg_pc,          \* "idle", "ready", "half" (the first call returned), "signed"
    sg_data,        \* the argument of the first call, a dict in insertion order
    sg_other,       \* the argument of the second call: the same pairs,
                    \* inserted in another order
    sg_sign,        \* the value the first call returned
    sg_sign_other   \* the value the second call returned

gvars == <<sg_pc, sg_data, sg_other, sg_sign, sg_sign_other>>

\* the params dict of fetch_products that its page coroutines share
VARIABLES
    fp_pc,          \* "idle", "start", "meta" (the first request), "page1",
                    \* "gather", "returned", "raised"
    fp_params,      \* the dict params of fetch_products, in insertion order
    fp_total_pages, \* total_pages of the first response
    fp_task,        \* per page, its fetch_and_add_products coroutine: "none"
                    \* (not started), "request", "sleep", "done", "raised"
    fp_copy,        \* per page, the local params of its fetch_data call
    fp_attempt,     \* per page, the local attempt of its fetch_data call
    fp_sent         \* per page, the requests its coroutine sent, in order:
                    \* the attempt and the params each request carried

qvars == <<fp_pc, fp_params, fp_total_pages, fp_task, fp_copy, fp_attempt, fp_sent>>

\* what the actions of the pipeline leave alone
xvars == <<dvars, mvars, rvars, evars, gvars, qvars>>

\* what the actions of fetch_data, of main, and of the two runs leave alone
dframe == <<fvars, pvars, cvars, mvars, rvars, evars, gvars, qvars>>
mframe == <<fvars, pvars, cvars, dvars, rvars, evars, gvars, qvars>>
rframe == <<fvars, pvars, cvars, dvars, mvars, evars, gvars, qvars>>

\* what the calls of get_sign, and the page coroutines of fetch_products,
\* leave alone
gframe == <<fvars, pvars, cvars, dvars, mvars, rvars, evars, qvars>>
qframe == <<fvars, pvars, cvars, dvars, mvars, rvars, evars, gvars>>

vars == <<fvars, pvars, cvars, xvars>>

----------------------------------------------------------------------------
(* The catalog fetcher: parser.fetch_products inside tasks.fetch_products_task *)

\* the goods of the remote catalog: page p lists PerPage items
PageIds(p) == [j \in 1..PerPage |-> (p - 1) * PerPage + j]

Item(id, av) ==
    [id |-> id,
     title |-> "title" \o ToString(id),
     webpage |-> "link" \o ToString(id),
     has_brand_name |-> id % 2 = 1,
     brand_name |-> "brand" \o ToString(id),
     isAvailable |-> av]

\* every listing of page p: each item available or not
PageGoods(p) ==
    {[j \in 1..PerPage |-> Item(PageIds(p)[j], av[j])] : av \in [1..PerPage -> BOOLEAN]}

\* the dataclass Product built from one item
Product(id, name, link, brand) ==
    [cls |-> "Product", id |-> id, name |-> name, link |-> link,
     regular_price |-> 0, promo_price |-> 0, brand |-> brand]

RECURSIVE add_products_from_data(_)
add_products_from_data(gs) ==
    IF gs = <<>> THEN <<>>
    ELSE LET item == Head(gs)
             rest == add_products_from_data(Tail(gs))
         IN IF item.isAvailable
            THEN <<Product(item.id, item.title, item.webpage,
                           IF item.has_brand_name THEN item.brand_name
                           ELSE "Unknown")>> \o rest
            ELSE rest

\* dataclasses.asdict, and Product(**prod)
asdict(product) ==
    [id |-> product.id, name |-> product.name, link |-> product.link,
     regular_price |-> product.regular_price,
     promo_price |-> product.promo_price, brand |-> product.brand]

FromDict(prod) ==
    [cls |-> "Product", id |-> prod.id, name |-> prod.name, link |-> prod.link,
     regular_price |-> prod.regular_price, promo_price |-> prod.promo_price,
     brand |-> prod.brand]

MapSeq(F(_), s) == [i \in DOMAIN s |-> F(s[i])]

\* a list put into a list by list.extend(list of lists)
NestedList(items) == [cls |-> "list", items |-> items]

\* products.extend(additional_products), additional_products being what
\* gather returned: one list per page 2..total_pages, in page order
ExtendWithPages(products, pp, tp) ==
    products \o [k \in 1..(tp - 1) |-> NestedList(pp[k + 1])]

\* the body of fetch_products_task after fetch_products has returned
IsProduct(e) == e.cls = "Product"

FetchTaskResult(products) == MapSeq(asdict, SelectSeq(products, IsProduct))

\* The JSON round trip of a task result.  A list of dicts with str keys and
\* int or str values comes back equal; the keys of a dict come back as str.
JsonKey(k) == IF k.tag = "int" THEN PyStr(ToString(k.int)) ELSE k

JsonDict(d) ==
    [k \in {JsonKey(x) : x \in DOMAIN d} |->
        d[CHOOSE x \in DOMAIN d : JsonKey(x) = k]]

JsonProducts(ps) == ps

\* fetch_products returns: the task filters, converts and returns, and the
\* chain hands the result to the price task
fetch_task_finish(products) ==
    /\ fetched' = products
    /\ f_pc' = "returned"
    /\ msg_products' = JsonProducts(FetchTaskResult(products))
    /\ stage' = "PRICE_PENDING"

\* the task starts fetch_products, which requests page 1 for the totals
FetchTaskStart ==
    /\ stage = "FETCH_PENDING"
    /\ f_pc = "idle"
    /\ f_pc' = "meta"
    /\ list_requests' = Append(list_requests, 1)
    /\ UNCHANGED <<stage, min_goods, meta, total_pages, page_pc, page_out,
                   page_products, goods, fetched, msg_products, msg_data, result>>
    /\ UNCHANGED <<pvars, cvars, xvars>>

\* an optional key of a response, read with dict.get(key, default)
NoKey == [has |-> FALSE, val |-> 0]

Opt(S) == {NoKey} \cup {[has |-> TRUE, val |-> v] : v \in S}

Get(opt, default) == IF opt.has THEN opt.val ELSE default

\* the first response lacks 'data' or 'goods' (or fetch_data gave {})
MetaInvalid ==
    /\ f_pc = "meta"
    /\ meta' = [valid |-> FALSE, total_pages |-> NoKey, total_items |-> NoKey]
    /\ fetch_task_finish(<<>>)
    /\ UNCHANGED <<min_goods, meta, total_pages, page_pc, page_out, page_products,
                   goods, list_requests, msg_data, result>>
    /\ UNCHANGED <<pvars, cvars, xvars>>

\* the stock gate: "if total_items <= min_goods: return []"
StockGateStrict(total_items, mg) == total_items < mg

StockGate(total_items, mg) == total_items <= mg

\* the first response is well-formed: the stock gate, then the request of
\* fetch_and_add_products for page 1
MetaOk ==
    /\ f_pc = "meta"
    /\ \E tp \in Opt(1..MaxPages), ti \in Opt(0..(MaxGoods + 1)) :
          /\ meta' = [valid |-> TRUE, total_pages |-> tp, total_items |-> ti]
          /\ total_pages' = Get(tp, 1)
          /\ IF StockGate(Get(ti, 0), min_goods)
             THEN /\ fetch_task_finish(<<>>)
                  /\ UNCHANGED <<page_pc, list_requests>>
             ELSE /\ f_pc' = "page1"
                  /\ page_pc' = [p \in 1..Get(tp, 1) |-> IF p = 1 THEN "sent" ELSE "new"]
                  /\ list_requests' = Append(list_requests, 1)
                  /\ UNCHANGED <<stage, fetched, msg_products>>
    /\ UNCHANGED <<min_goods, page_out, page_products, goods, msg_data, result>>
    /\ UNCHANGED <<pvars, cvars, xvars>>

\* the end of one fetch_and_add_products call
page_done(p, out, gs) ==
    /\ page_pc' = [page_pc EXCEPT ![p] = "done"]
    /\ page_out' = [x \in DOMAIN page_out \cup {p} |-> IF x = p THEN out ELSE page_out[x]]
    /\ goods' = [x \in DOMAIN goods \cup {p} |-> IF x = p THEN gs ELSE goods[x]]
    /\ page_products' = [x \in DOMAIN page_products \cup {p} |->
                           IF x = p
                           THEN IF out = "ok" THEN add_products_from_data(gs) ELSE <<>>
                           ELSE page_products[x]]

PageOutcome(p, out, gs) ==
    \/ out = "ok" /\ gs \in PageGoods(p)
    \/ out \in {"empty", "malformed"} /\ gs = <<>>

\* the response to page 1; fetch_products then creates the calls for the
\* pages 2..total_pages and awaits them
Page1Respond ==
    /\ f_pc = "page1"
    /\ \E out \in {"ok", "empty", "malformed"}, gs \in PageGoods(1) \cup {<<>>} :
          /\ PageOutcome(1, out, gs)
          /\ page_done(1, out, gs)
    /\ f_pc' = "gather"
    /\ UNCHANGED <<stage, min_goods, meta, total_pages, list_requests, fetched,
                   msg_products, msg_data, result>>
    /\ UNCHANGED <<pvars, cvars, xvars>>

\* fetch_and_add_products(page) up to the request of fetch_data
PageStart(p) ==
    /\ f_pc = "gather"
    /\ page_pc[p] = "new"
    /\ page_pc' = [page_pc EXCEPT ![p] = "sent"]
    /\ list_requests' = Append(list_requests, p)
    /\ UNCHANGED <<stage, min_goods, f_pc, meta, total_pages, page_out, page_products,
                   goods, fetched, msg_products, msg_data, result>>
    /\ UNCHANGED <<pvars, cvars, xvars>>

\* the response to one of the pages 2..total_pages
PageRespond(p) ==
    /\ f_pc = "gather"
    /\ page_pc[p] = "sent"
    /\ \E out \in {"ok", "empty", "malformed"}, gs \in PageGoods(p) \cup {<<>>} :
          /\ PageOutcome(p, out, gs)
          /\ page_done(p, out, gs)
    /\ UNCHANGED <<stage, min_goods, f_pc, meta, total_pages, list_requests, fetched,
                   msg_products, msg_data, result>>
    /\ UNCHANGED <<pvars, cvars, xvars>>

\* gather is complete: extend, return, and the rest of the task
FetchProductsReturn ==
    /\ f_pc = "gather"
    /\ \A p \in DOMAIN page_pc : page_pc[p] = "done"
    /\ fetch_task_finish(ExtendWithPages(page_products[1], page_products, total_pages))
    /\ UNCHANGED <<min_goods, meta, total_pages, page_pc, page_out, page_products,
                   goods, list_requests, msg_data, result>>
    /\ UNCHANGED <<pvars, cvars, xvars>>

PageStep == \E p \in 2..total_pages : PageStart(p) \/ PageRespond(p)

\* an await of fetch_products raises: get_token, which catches nothing, or
\* fetch_data with an exception that is no aiohttp.ClientError, or a body whose
\* 'data' is no dict.  Nothing in fetch_products or its task catches it: the
\* task fails, and the chain with it.
FetchRaise ==
    /\ stage = "FETCH_PENDING"
    /\ \/ f_pc \in {"meta", "page1"}
       \/ f_pc = "gather" /\ \E p \in 2..total_pages : page_pc[p] = "sent"
    /\ f_pc' = "raised"
    /\ stage' = "FAILED"
    /\ UNCHANGED <<min_goods, meta, total_pages, page_pc, page_out, page_products,
                   goods, list_requests, fetched, msg_products, msg_data, result>>
    /\ UNCHANGED <<pvars, cvars, xvars>>

----------------------------------------------------------------------------
(* The price fetcher: parser.fetch_prices and its fetch_price_batch tasks *)

\* The remote side's answer for one requested offer:
\*   "own"     a product whose active_offer_id is the requested id
\*   "foreign" a product whose active_offer_id is another id
\*   "none"    a product without (or with a falsy) active_offer_id
\*   "absent"  no product at all
\*   "broken"  a product with an active_offer_id but without variants
AllKinds == {"own", "foreign", "none", "absent", "broken"}

OldPrice(id) == 10 * id + 5
ActualPrice(id) == 10 * id

\* the price record the remote side quotes in the product it lists for id
QuoteOf(id) == [regular_price |-> OldPrice(id), promo_price |-> ActualPrice(id)]

\* the product the remote side lists for requested id under answer k
ServerProduct(id, k) ==
    [active_offer_id |-> CASE k = "own" -> id
                           [] k = "broken" -> id
                           [] k = "foreign" -> ForeignId
                           [] OTHER -> NoOffer,
     has_variants |-> k # "broken",
     old |-> OldPrice(id),
     actual |-> ActualPrice(id)]

\* response['data']['products'] for a request carrying offers, under answers ans
RECURSIVE ServerProducts(_, _)
ServerProducts(offers, ans) ==
    IF offers = <<>> THEN <<>>
    ELSE LET id == Head(offers)
             rest == ServerProducts(Tail(offers), ans)
         IN IF ans[id] = "absent" THEN rest
            ELSE <<ServerProduct(id, ans[id])>> \o rest

\* the batches of fetch_prices: unique_offers[i:i + BATCH_SIZE] for i in
\* range(0, len(unique_offers), BATCH_SIZE)
SliceStarts(n) == {i \in 0..(n - 1) : i % BATCH_SIZE = 0}

Slice(s, i, j) == SubSeq(s, i + 1, Min(j, Len(s)))

MakeBatchesFullOnly(offers) ==
    [k \in 1..(Len(offers) \div BATCH_SIZE) |->
        Slice(offers, (k - 1) * BATCH_SIZE, (k - 1) * BATCH_SIZE + BATCH_SIZE)]

MakeBatches(offers) ==
    [k \in 1..Cardinality(SliceStarts(Len(offers))) |->
        Slice(offers, (k - 1) * BATCH_SIZE, (k - 1) * BATCH_SIZE + BATCH_SIZE)]

\* the data dict of one task, without token and sign: offers[j] -> offer
OffersPayload(batch_ids) == batch_ids

\* the for loop over response['data']['products']: the dict after the loop,
\* and whether the loop raised
RECURSIVE ProcessProducts(_, _)
ProcessProducts(d, products) ==
    IF products = <<>> THEN [prices |-> d, raised |-> FALSE]
    ELSE LET product == Head(products)
             active_offer_id == product.active_offer_id
         IN IF active_offer_id # NoOffer
            THEN IF ~product.has_variants
                 THEN [prices |-> d, raised |-> TRUE]
                 ELSE ProcessProducts(
                        DictSet(d, PyInt(active_offer_id),
                                [regular_price |-> product.old,
                                 promo_price |-> product.actual]),
                        Tail(products))
            ELSE ProcessProducts(d, Tail(products))

Tasks == DOMAIN batches

UniqueOffersKeepDuplicates(ids) == {ids}

\* list(set(product_ids)): the distinct ids, in whatever order the set gives
UniqueOffers(ids) == Perms(Range(ids))

\* fetch_prices up to its await of gather: dedup, partition, task creation
fetch_prices_begin(ids) ==
    /\ \E order \in UniqueOffers(ids) :
          /\ unique_offers' = order
          /\ batches' = MakeBatches(order)
          /\ b_pc' = [b \in DOMAIN MakeBatches(order) |-> "token"]
          /\ b_out' = [b \in DOMAIN MakeBatches(order) |-> "none"]
          /\ requests' = [b \in DOMAIN MakeBatches(order) |-> <<>>]
    /\ prices' = EmptyDict
    /\ permits' = MAX_CONCURRENT_REQUESTS
    /\ pr_status' = "running"

FetchPricesStart ==
    /\ stage = "NONE"
    /\ pr_status = "idle"
    /\ fetch_prices_begin(product_ids)
    /\ UNCHANGED <<fvars, cvars, xvars, product_ids, kinds, srv, pr_result>>

\* a task's get_token() returns: the task goes on to the semaphore
TokenReturn(b) ==
    /\ pr_status \in {"running", "raising"}
    /\ b_pc[b] = "token"
    /\ b_pc' = [b_pc EXCEPT ![b] = "wait"]
    /\ UNCHANGED <<fvars, cvars, xvars, product_ids, kinds, pr_status, unique_offers, batches, b_out,
                   permits, prices, requests, srv, pr_result>>

\* a task's get_token() raises: nothing catches it, gather hands it to
\* fetch_prices
TokenRaise(b) ==
    /\ pr_status \in {"running", "raising"}
    /\ b_pc[b] = "token"
    /\ b_pc' = [b_pc EXCEPT ![b] = "failed"]
    /\ pr_status' = "raising"
    /\ UNCHANGED <<fvars, cvars, xvars, product_ids, kinds, unique_offers, batches, b_out,
                   permits, prices, requests, srv, pr_result>>

AcquireUnbounded(b) ==
    /\ pr_status \in {"running", "raising"}
    /\ b_pc[b] = "wait"
    /\ permits' = permits - 1
    /\ b_pc' = [b_pc EXCEPT ![b] = "request"]
    /\ requests' = [requests EXCEPT ![b] = Append(@, OffersPayload(batches[b]))]
    /\ UNCHANGED <<fvars, cvars, xvars, product_ids, kinds, pr_status, unique_offers, batches, b_out,
                   prices, srv, pr_result>>

\* async with semaphore, then the POST of fetch_data
Acquire(b) ==
    /\ pr_status \in {"running", "raising"}
    /\ b_pc[b] = "wait"
    /\ permits > 0
    /\ permits' = permits - 1
    /\ b_pc' = [b_pc EXCEPT ![b] = "request"]
    /\ requests' = [requests EXCEPT ![b] = Append(@, OffersPayload(batches[b]))]
    /\ UNCHANGED <<fvars, cvars, xvars, product_ids, kinds, pr_status, unique_offers, batches, b_out,
                   prices, srv, pr_result>>

RECURSIVE ProcessRequested(_, _, _)
ProcessRequested(d, offers, ans) ==
    IF offers = <<>> THEN [prices |-> d, raised |-> FALSE]
    ELSE LET id == Head(offers)
         IN IF ans[id] = "broken" THEN [prices |-> d, raised |-> TRUE]
            ELSE IF ans[id] \in {"own", "foreign"}
            THEN ProcessRequested(
                   DictSet(d, PyInt(id), [regular_price |-> OldPrice(id),
                                          promo_price |-> ActualPrice(id)]),
                   Tail(offers), ans)
            ELSE ProcessRequested(d, Tail(offers), ans)

RespondDataKeyedByRequest(b) ==
    /\ pr_status \in {"running", "raising"}
    /\ b_pc[b] = "request"
    /\ \E ans \in [Range(batches[b]) -> kinds] :
          LET r == ProcessRequested(prices, batches[b], ans)
          IN /\ prices' = r.prices
             /\ srv' = [id \in DOMAIN srv \cup DOMAIN ans |->
                           IF id \in DOMAIN ans THEN ans[id] ELSE srv[id]]
             /\ IF r.raised
                THEN /\ b_pc' = [b_pc EXCEPT ![b] = "sleep"]
                     /\ b_out' = [b_out EXCEPT ![b] = "broke"]
                     /\ UNCHANGED permits
                ELSE /\ b_pc' = [b_pc EXCEPT ![b] = "done"]
                     /\ b_out' = [b_out EXCEPT ![b] = "ok"]
                     /\ permits' = permits + 1
    /\ UNCHANGED <<fvars, cvars, xvars, product_ids, kinds, pr_status, unique_offers, batches,
                   requests, pr_result>>

\* fetch_data returns a body with 'data': the loop over the products
RespondData(b) ==
    /\ pr_status \in {"running", "raising"}
    /\ b_pc[b] = "request"
    /\ \E ans \in [Range(batches[b]) -> kinds] :
          LET r == ProcessProducts(prices, ServerProducts(batches[b], ans))
          IN /\ prices' = r.prices
             /\ srv' = [id \in DOMAIN srv \cup DOMAIN ans |->
                           IF id \in DOMAIN ans THEN ans[id] ELSE srv[id]]
             /\ IF r.raised
                THEN /\ b_pc' = [b_pc EXCEPT ![b] = "sleep"]
                     /\ b_out' = [b_out EXCEPT ![b] = "broke"]
                     /\ UNCHANGED permits
                ELSE /\ b_pc' = [b_pc EXCEPT ![b] = "done"]
                     /\ b_out' = [b_out EXCEPT ![b] = "ok"]
                     /\ permits' = permits + 1
    /\ UNCHANGED <<fvars, cvars, xvars, product_ids, kinds, pr_status, unique_offers, batches,
                   requests, pr_result>>

RespondEmptyRetried(b) ==
    /\ pr_status \in {"running", "raising"}
    /\ b_pc[b] = "request"
    /\ b_out' = [b_out EXCEPT ![b] = "empty"]
    /\ requests' = [requests EXCEPT ![b] = Append(@, OffersPayload(batches[b]))]
    /\ UNCHANGED <<fvars, cvars, xvars, product_ids, kinds, pr_status, unique_offers, batches, b_pc,
                   permits, prices, srv, pr_result>>

\* fetch_data returns {} (or a body without 'data'): nothing is written
RespondEmpty(b) ==
    /\ pr_status \in {"running", "raising"}
    /\ b_pc[b] = "request"
    /\ b_pc' = [b_pc EXCEPT ![b] = "done"]
    /\ b_out' = [b_out EXCEPT ![b] = "empty"]
    /\ permits' = permits + 1
    /\ UNCHANGED <<fvars, cvars, xvars, product_ids, kinds, pr_status, unique_offers, batches,
                   prices, requests, srv, pr_result>>

\* fetch_data raises something that is no aiohttp.ClientError: except Exception
RespondRaise(b) ==
    /\ pr_status \in {"running", "raising"}
    /\ b_pc[b] = "request"
    /\ b_pc' = [b_pc EXCEPT ![b] = "sleep"]
    /\ b_out' = [b_out EXCEPT ![b] = "raise"]
    /\ UNCHANGED <<fvars, cvars, xvars, product_ids, kinds, pr_status, unique_offers, batches,
                   permits, prices, requests, srv, pr_result>>

\* an except branch that leaves the handler without the end of the async with
WakeKeepsPermit(b) ==
    /\ pr_status \in {"running", "raising"}
    /\ b_pc[b] = "sleep"
    /\ b_pc' = [b_pc EXCEPT ![b] = "done"]
    /\ UNCHANGED <<fvars, cvars, xvars, product_ids, kinds, pr_status, unique_offers, batches, b_out,
                   permits, prices, requests, srv, pr_result>>

\* the end of asyncio.sleep(1) in the except branch, and of the async with
Wake(b) ==
    /\ pr_status \in {"running", "raising"}
    /\ b_pc[b] = "sleep"
    /\ b_pc' = [b_pc EXCEPT ![b] = "done"]
    /\ permits' = permits + 1
    /\ UNCHANGED <<fvars, cvars, xvars, product_ids, kinds, pr_status, unique_offers, batches, b_out,
                   prices, requests, srv, pr_result>>

\* gather is complete: fetch_prices returns the dict
fetch_prices_end ==
    /\ pr_status = "running"
    /\ \A b \in Tasks : b_pc[b] = "done"
    /\ pr_status' = "returned"
    /\ pr_result' = prices

FetchPricesReturn ==
    /\ stage = "NONE"
    /\ fetch_prices_end
    /\ UNCHANGED <<fvars, cvars, xvars, product_ids, kinds, unique_offers, batches, b_pc, b_out,
                   permits, prices, requests, srv>>

\* the exception of a task leaves fetch_prices; asyncio.run cancels the tasks
\* that are left, and a cancelled task inside async with gives its permit back
fetch_prices_raise ==
    /\ pr_status = "raising"
    /\ pr_status' = "raised"
    /\ b_pc' = [b \in Tasks |->
                  IF b_pc[b] \in {"done", "failed"} THEN b_pc[b] ELSE "cancelled"]
    /\ permits' = permits + Cardinality({b \in Tasks : b_pc[b] \in {"request", "sleep"}})

FetchPricesRaise ==
    /\ stage = "NONE"
    /\ fetch_prices_raise
    /\ UNCHANGED <<fvars, cvars, xvars, product_ids, kinds, unique_offers, batches, b_out,
                   prices, requests, srv, pr_result>>

BatchStep ==
    \E b \in Tasks :
        \/ TokenReturn(b)
        \/ TokenRaise(b)
        \/ Acquire(b)
        \/ RespondData(b)
        \/ RespondEmpty(b)
        \/ RespondRaise(b)
        \/ Wake(b)

----------------------------------------------------------------------------
(* The combiner: parser.combine_product_and_prices *)

\* price_info.get(key, 0)
PriceGet(price_info, key) == IF key \in DOMAIN price_info THEN price_info[key] ELSE 0

\* prices.get(product.id), and the test "if price_info"
HasPriceInfo(product, ps) ==
    /\ PyInt(product.id) \in DOMAIN ps
    /\ DOMAIN ps[PyInt(product.id)] # {}

CombineOneResetOnMiss(product, ps) ==
    IF HasPriceInfo(product, ps)
    THEN [product EXCEPT
            !.regular_price = PriceGet(ps[PyInt(product.id)], "regular_price"),
            !.promo_price = PriceGet(ps[PyInt(product.id)], "promo_price")]
    ELSE [product EXCEPT !.regular_price = 0, !.promo_price = 0]

CombineOne(product, ps) ==
    IF HasPriceInfo(product, ps)
    THEN [product EXCEPT
            !.regular_price = PriceGet(ps[PyInt(product.id)], "regular_price"),
            !.promo_price = PriceGet(ps[PyInt(product.id)], "promo_price")]
    ELSE product

IsPriced(product) == product.regular_price # 0 \/ product.promo_price # 0

combine_drop_unpriced(products, ps) ==
    SelectSeq([i \in DOMAIN products |-> CombineOne(products[i], ps)], IsPriced)

combine_product_and_prices(products, ps) ==
    [i \in DOMAIN products |-> CombineOne(products[i], ps)]

\* the body of combine_products_and_prices_task
CombineTaskResult(data) ==
    MapSeq(asdict, combine_product_and_prices(MapSeq(FromDict, data.products),
                                              data.prices))

Combine ==
    /\ c_pc = "ready"
    /\ c_result' = combine_product_and_prices(c_products, c_prices)
    /\ c_pc' = "done"
    /\ UNCHANGED <<c_products, c_prices>>
    /\ UNCHANGED <<fvars, pvars, xvars>>

----------------------------------------------------------------------------
(* The chain: tasks.fetch_prices_task and combine_products_and_prices_task *)

ProductId(prod) == prod.id

\* fetch_prices_task up to the await of gather inside fetch_prices
PricesTaskStart ==
    /\ stage = "PRICE_PENDING"
    /\ pr_status = "idle"
    /\ product_ids' = MapSeq(ProductId, msg_products)
    /\ fetch_prices_begin(MapSeq(ProductId, msg_products))
    /\ UNCHANGED <<kinds, srv, pr_result>>
    /\ UNCHANGED <<fvars, cvars, xvars>>

\* a price task that returns only the products for which it found a price
PricesTaskReturnPriced ==
    /\ stage = "PRICE_PENDING"
    /\ fetch_prices_end
    /\ msg_data' = [products |-> SelectSeq(msg_products,
                                           LAMBDA prod : PyInt(prod.id) \in DOMAIN prices),
                    prices |-> JsonDict(prices)]
    /\ stage' = "COMBINE_PENDING"
    /\ UNCHANGED <<product_ids, kinds, unique_offers, batches, b_pc, b_out,
                   permits, prices, requests, srv>>
    /\ UNCHANGED <<min_goods, f_pc, meta, total_pages, page_pc, page_out, page_products,
                   goods, list_requests, fetched, msg_products, result>>
    /\ UNCHANGED <<cvars, xvars>>

\* fetch_prices returns; the task returns (products, prices), which the chain
\* hands to the combine task
PricesTaskReturn ==
    /\ stage = "PRICE_PENDING"
    /\ fetch_prices_end
    /\ msg_data' = [products |-> JsonProducts(msg_products),
                    prices |-> JsonDict(prices)]
    /\ stage' = "COMBINE_PENDING"
    /\ UNCHANGED <<product_ids, kinds, unique_offers, batches, b_pc, b_out,
                   permits, prices, requests, srv>>
    /\ UNCHANGED <<min_goods, f_pc, meta, total_pages, page_pc, page_out, page_products,
                   goods, list_requests, fetched, msg_products, result>>
    /\ UNCHANGED <<cvars, xvars>>

\* fetch_prices raises: the task fails, and the chain with it
PricesTaskRaise ==
    /\ stage = "PRICE_PENDING"
    /\ fetch_prices_raise
    /\ stage' = "FAILED"
    /\ UNCHANGED <<product_ids, kinds, unique_offers, batches, b_out,
                   prices, requests, srv, pr_result>>
    /\ UNCHANGED <<min_goods, f_pc, meta, total_pages, page_pc, page_out, page_products,
                   goods, list_requests, fetched, msg_products, msg_data, result>>
    /\ UNCHANGED <<cvars, xvars>>

CombineTaskAppends ==
    /\ stage = "COMBINE_PENDING"
    /\ result' = result \o CombineTaskResult(msg_data)
    /\ stage' = "DONE"
    /\ UNCHANGED <<min_goods, f_pc, meta, total_pages, page_pc, page_out, page_products,
                   goods, list_requests, fetched, msg_products, msg_data>>
    /\ UNCHANGED <<pvars, cvars, xvars>>

\* the combine task: its return value is the result of the chain
CombineTask ==
    /\ stage = "COMBINE_PENDING"
    /\ result' = CombineTaskResult(msg_data)
    /\ stage' = "DONE"
    /\ UNCHANGED <<min_goods, f_pc, meta, total_pages, page_pc, page_out, page_products,
                   goods, list_requests, fetched, msg_products, msg_data>>
    /\ UNCHANGED <<pvars, cvars, xvars>>

----------------------------------------------------------------------------
(* The request adapter: parser.fetch_data *)

\* Python's None as a value of params
PyNone == 0

ParamKeys == {"page", "count", "sign"}
ParamValues == 1..MaxParamValue

\* params = {k: v for k, v in params.items() if v is not None}
StripNone(d) == [k \in {x \in DOMAIN d : d[x] # PyNone} |-> d[k]]

\* the exceptions of a request that are aiohttp.ClientError: a failed
\* connection, a timed-out connect or read, a 200 body of another content type
ClientErrors == {"ClientConnectionError", "ServerTimeoutError", "ContentTypeError"}

\* the exceptions of a request that are no aiohttp.ClientError: the session's
\* total timeout (asyncio.TimeoutError), a 200 body that is no JSON
OtherErrors == {"TimeoutError", "JSONDecodeError"}

\* attempt = 0, the comprehension over params, and the first session.request
FetchDataCall ==
    /\ fd_pc = "idle"
    /\ attempt' = 0
    /\ fd_requests' = <<StripNone(params)>>
    /\ fd_pc' = "request"
    /\ UNCHANGED <<dframe, params, fd_outcomes, fd_return>>

\* response.status == 200 and response.json() gives the body
Response200 ==
    /\ fd_pc = "request"
    /\ fd_outcomes' = Append(fd_outcomes, "ok")
    /\ fd_return' = "body"
    /\ fd_pc' = "returned"
    /\ UNCHANGED <<dframe, params, attempt, fd_requests>>

ResponseStatusRetried ==
    /\ fd_pc = "request"
    /\ fd_outcomes' = Append(fd_outcomes, "status")
    /\ attempt' = attempt + 1
    /\ IF attempt + 1 < RETRIES
       THEN fd_pc' = "sleep" /\ UNCHANGED fd_return
       ELSE fd_pc' = "returned" /\ fd_return' = "empty"
    /\ UNCHANGED <<dframe, params, fd_requests>>

\* any other status: the error is logged and {} returned
ResponseStatus ==
    /\ fd_pc = "request"
    /\ fd_outcomes' = Append(fd_outcomes, "status")
    /\ fd_return' = "empty"
    /\ fd_pc' = "returned"
    /\ UNCHANGED <<dframe, params, attempt, fd_requests>>

\* except aiohttp.ClientError: attempt += 1, then sleep and loop, or give up
RequestClientError ==
    /\ fd_pc = "request"
    /\ \E e \in ClientErrors : fd_outcomes' = Append(fd_outcomes, e)
    /\ attempt' = attempt + 1
    /\ IF attempt + 1 < RETRIES
       THEN fd_pc' = "sleep" /\ UNCHANGED fd_return
       ELSE fd_pc' = "returned" /\ fd_return' = "empty"
    /\ UNCHANGED <<dframe, params, fd_requests>>

\* the end of asyncio.sleep(2): while attempt < RETRIES, the next request
RetryRequest ==
    /\ fd_pc = "sleep"
    /\ attempt < RETRIES
    /\ fd_requests' = Append(fd_requests, StripNone(params))
    /\ fd_pc' = "request"
    /\ UNCHANGED <<dframe, params, attempt, fd_outcomes, fd_return>>

\* an exception the except clause does not name leaves fetch_data
RequestOtherError ==
    /\ fd_pc = "request"
    /\ \E e \in OtherErrors : fd_outcomes' = Append(fd_outcomes, e)
    /\ fd_pc' = "raised"
    /\ UNCHANGED <<dframe, params, attempt, fd_requests, fd_return>>

----------------------------------------------------------------------------
(* The caller: main.main and tasks.save_products *)

\* the extensions save_all has a writer for
SupportedExtensions == {"json", "csv", "xlsx"}

\* file names main may be given; "a.b" is <<"a", "b">>
Filenames == {<<"products", "json">>, <<"products", "CSV">>, <<"products", "xlsx">>,
              <<"products", "txt">>, <<"products", "v2", "csv">>, <<"products">>}

\* str.lower on the words of Filenames
Lower(word) == IF word = "CSV" THEN "csv" ELSE word

\* filename.split('.')[-1].lower()
file_extension(name) == Lower(name[Len(name)])

\* what running the coroutine save_all(products, filename) does: the writer
\* for the extension is run on the records, or ValueError is raised
save_all(products, name) ==
    IF file_extension(name) \in SupportedExtensions
    THEN [raised |-> FALSE,
          run |-> <<[writer |-> file_extension(name), records |-> products]>>]
    ELSE [raised |-> TRUE, run |-> <<>>]

MainGetResultAlwaysSaves ==
    /\ m_pc = "waiting"
    /\ stage = "DONE"
    /\ m_products' = result
    /\ \E name \in Filenames : filename' = name
    /\ save_dispatched' = save_dispatched + 1
    /\ s_pc' = "queued"
    /\ m_pc' = "saving"
    /\ UNCHANGED <<mframe, m_raised_at, writers_run>>

\* result.get(timeout=300) returns the chain's result; a truthy result is
\* handed to save_products.apply_async, a falsy one is logged as a warning
MainGetResult ==
    /\ m_pc = "waiting"
    /\ stage = "DONE"
    /\ m_products' = result
    /\ IF result # <<>>
       THEN /\ \E name \in Filenames : filename' = name
            /\ save_dispatched' = save_dispatched + 1
            /\ s_pc' = "queued"
            /\ m_pc' = "saving"
       ELSE /\ m_pc' = "no_products"
            /\ UNCHANGED <<filename, save_dispatched, s_pc>>
    /\ UNCHANGED <<mframe, m_raised_at, writers_run>>

MainChainFailedGivesNothing ==
    /\ m_pc = "waiting"
    /\ stage = "FAILED"
    /\ m_pc' = "no_products"
    /\ UNCHANGED <<mframe, m_raised_at, m_products, filename,
                   save_dispatched, s_pc, writers_run>>

\* result.get raises the exception of the failed task; main catches and logs it
MainChainFailed ==
    /\ m_pc = "waiting"
    /\ stage = "FAILED"
    /\ m_pc' = "failed"
    /\ m_raised_at' = "result.get"
    /\ UNCHANGED <<mframe, m_products, filename,
                   save_dispatched, s_pc, writers_run>>

\* the 300 seconds of result.get pass before the chain has a result
MainWaitTimeout ==
    /\ m_pc = "waiting"
    /\ stage \notin {"DONE", "FAILED"}
    /\ m_pc' = "failed"
    /\ m_raised_at' = "result.get"
    /\ UNCHANGED <<mframe, m_products, filename,
                   save_dispatched, s_pc, writers_run>>

\* save_products calls save_all(products, filename) without awaiting it: the
\* call only builds a coroutine object, no statement of save_all runs, and
\* the task returns None
SaveProductsTask ==
    /\ s_pc = "queued"
    /\ s_pc' = "succeeded"
    /\ UNCHANGED <<mframe, m_pc, m_raised_at, m_products, filename,
                   save_dispatched, writers_run>>

\* save_result.get(timeout=300) returns: main logs the successful save
MainSaveDone ==
    /\ m_pc = "saving"
    /\ s_pc = "succeeded"
    /\ m_pc' = "saved"
    /\ UNCHANGED <<mframe, m_raised_at, m_products, filename,
                   save_dispatched, s_pc, writers_run>>

\* the 300 seconds of save_result.get pass before the task is done
MainSaveTimeout ==
    /\ m_pc = "saving"
    /\ s_pc = "queued"
    /\ m_pc' = "failed"
    /\ m_raised_at' = "save_result.get"
    /\ UNCHANGED <<mframe, m_products, filename,
                   save_dispatched, s_pc, writers_run>>

----------------------------------------------------------------------------
(* Two concurrent runs: tasks.get_products_with_prices and celery_app *)

Runs == {1, 2}

\* A city or category id is a string; it is modelled as the sequence of its
\* dot-separated words ("1.2" is <<"1", "2">>), so that an f-string joining
\* ids with "." is the concatenation of the word sequences.
IdWords == {"1", "2"}
Ids == UNION {[1..n -> IdWords] : n \in 1..MaxIdWords}
Pairs == [city_id : Ids, category_id : Ids]

\* the first words of the routing key of each task (tasks.py:87-99)
TaskNames == <<"fetch_products_task", "fetch_prices_task",
               "combine_products_and_prices_task">>

KeyPrefix(task) ==
    CASE task = "fetch_products_task" -> <<"fetch", "products">>
      [] task = "fetch_prices_task" -> <<"fetch", "prices">>
      [] task = "combine_products_and_prices_task" -> <<"combine", "products">>

\* f'fetch.products.{city_id}.{category_id}' and its two siblings
RoutingKey(task, city_id, category_id) == KeyPrefix(task) \o city_id \o category_id

\* task_routes: the exchange each task is published to
TaskExchange(task) ==
    CASE task = "fetch_products_task" -> "fetch"
      [] task = "fetch_prices_task" -> "prices"
      [] task = "combine_products_and_prices_task" -> "combine"

\* task_queues: the topic queues with their exchange and binding key
TaskQueues ==
    {[name |-> "fetch.products", exchange |-> "fetch",
      binding |-> <<"fetch", "products", "#">>],
     [name |-> "fetch.prices", exchange |-> "prices",
      binding |-> <<"fetch", "prices", "#">>],
     [name |-> "combine.products", exchange |-> "combine",
      binding |-> <<"combine", "products", "#">>]}

\* a topic binding that ends in "#" matches the keys that start with the
\* words before it
TopicMatches(binding, key) ==
    LET n == Len(binding) - 1
    IN /\ binding[Len(binding)] = "#"
       /\ Len(key) >= n
       /\ \A i \in 1..n : key[i] = binding[i]

\* the queues a message published to exchange with key arrives in
QueuesFor(exchange, key) ==
    {q.name : q \in {x \in TaskQueues : x.exchange = exchange /\ TopicMatches(x.binding, key)}}

\* The remote catalog lists, for each (city, category), an item of its own:
\* the item id is a number that encodes the pair.
WordValue(word) == IF word = "1" THEN 1 ELSE 2

RECURSIVE IdCode(_)
IdCode(id) ==
    IF id = <<>> THEN 0
    ELSE (Cardinality(IdWords) + 1) * IdCode(SubSeq(id, 1, Len(id) - 1))
         + WordValue(id[Len(id)])

RECURSIVE Power(_, _)
Power(b, n) == IF n = 0 THEN 1 ELSE b * Power(b, n - 1)

CatalogItemId(city_id, category_id) ==
    IdCode(city_id) * Power(Cardinality(IdWords) + 1, MaxIdWords) + IdCode(category_id)

\* what fetch_products can return for the pair: its available item, or nothing
CatalogResults(city_id, category_id) ==
    {add_products_from_data(<<Item(CatalogItemId(city_id, category_id), av)>>) :
        av \in BOOLEAN}

\* what fetch_prices can return for product ids: a quote for each, or nothing
PriceResults(ids) ==
    {EmptyDict, [k \in {PyInt(ids[i]) : i \in DOMAIN ids} |-> QuoteOf(k.int)]}

\* a task signature with the routing key set on it
Signature(task, city_id, category_id) ==
    [task |-> task,
     city_id |-> city_id,
     category_id |-> category_id,
     routing_key |-> RoutingKey(task, city_id, category_id)]

\* task_chain = fetch | prices | combine for one call
TaskChain(city_id, category_id) ==
    [i \in DOMAIN TaskNames |-> Signature(TaskNames[i], city_id, category_id)]

\* the messages publishing the head of chain for run r with payload gives: one
\* per queue the key is routed to
Published(r, chain, payload) ==
    LET sig == Head(chain)
    IN {[run |-> r, sig |-> sig, chain |-> Tail(chain), payload |-> payload, queue |-> q] :
           q \in QueuesFor(TaskExchange(sig.task), sig.routing_key)}

NoPayload == [products |-> <<>>, prices |-> EmptyDict]

\* get_products_with_prices: the chain is built and its first task published
Submit(r) ==
    /\ r_stage[r] = "NONE"
    /\ LET msgs == Published(r, TaskChain(r_pair[r].city_id, r_pair[r].category_id),
                             NoPayload)
       IN /\ r_queue' = r_queue \cup msgs
          /\ r_sent' = r_sent \cup msgs
    /\ r_stage' = [r_stage EXCEPT ![r] = "FETCH_PENDING"]
    /\ UNCHANGED <<rframe, r_pair, r_result>>

\* a worker takes a fetch_products_task message, runs the task with the
\* arguments of the signature, and publishes the next task with the result
RunFetchTask ==
    \E m \in r_queue :
        /\ m.sig.task = "fetch_products_task"
        /\ \E products \in CatalogResults(m.sig.city_id, m.sig.category_id) :
              LET msgs == Published(m.run, m.chain,
                                    [products |-> JsonProducts(FetchTaskResult(products)),
                                     prices |-> EmptyDict])
              IN /\ r_queue' = (r_queue \ {m}) \cup msgs
                 /\ r_sent' = r_sent \cup msgs
        /\ r_stage' = [r_stage EXCEPT ![m.run] = "PRICE_PENDING"]
        /\ UNCHANGED <<rframe, r_pair, r_result>>

\* a worker runs fetch_prices_task on the products it is handed
RunPricesTask ==
    \E m \in r_queue :
        /\ m.sig.task = "fetch_prices_task"
        /\ \E ps \in PriceResults(MapSeq(ProductId, m.payload.products)) :
              LET msgs == Published(m.run, m.chain,
                                    [products |-> JsonProducts(m.payload.products),
                                     prices |-> JsonDict(ps)])
              IN /\ r_queue' = (r_queue \ {m}) \cup msgs
                 /\ r_sent' = r_sent \cup msgs
        /\ r_stage' = [r_stage EXCEPT ![m.run] = "COMBINE_PENDING"]
        /\ UNCHANGED <<rframe, r_pair, r_result>>

\* a worker runs combine_products_and_prices_task: the result of the chain
RunCombineTask ==
    \E m \in r_queue :
        /\ m.sig.task = "combine_products_and_prices_task"
        /\ r_queue' = r_queue \ {m}
        /\ r_result' = [r_result EXCEPT ![m.run] = CombineTaskResult(m.payload)]
        /\ r_stage' = [r_stage EXCEPT ![m.run] = "DONE"]
        /\ UNCHANGED <<rframe, r_pair, r_sent>>

----------------------------------------------------------------------------
(* Duplicate delivery of a task message *)

\* The broker delivers the message of a stage a second time: the handler runs
\* again on the same message, and the chain goes on from it again.  The
\* handlers share no state, so the second execution is taken after the first
\* run of the chain is over.
Snapshot ==
    [meta |-> meta, page_out |-> page_out, goods |-> goods, srv |-> srv, result |-> result]

NoSnapshot ==
    [meta |-> [valid |-> FALSE, total_pages |-> NoKey, total_items |-> NoKey],
     page_out |-> <<>>, goods |-> <<>>, srv |-> EmptyDict, result |-> <<>>]

\* the remote side answers the second execution as it answered the first
AnswersAgree ==
    \/ e_redelivered = "none"
    \/ /\ f_pc \notin {"idle", "meta"} => meta = e_first.meta
       /\ \A p \in DOMAIN page_out :
             /\ page_out[p] = e_first.page_out[p]
             /\ goods[p] = e_first.goods[p]
       /\ \A id \in DOMAIN srv \cap DOMAIN e_first.srv : srv[id] = e_first.srv[id]

\* fetch_products_task is delivered again
RedeliverFetch ==
    /\ stage = "DONE"
    /\ e_redelivered = "none"
    /\ e_redelivered' = "fetch"
    /\ e_first' = Snapshot
    /\ stage' = "FETCH_PENDING"
    /\ f_pc' = "idle"
    /\ meta' = [valid |-> FALSE, total_pages |-> NoKey, total_items |-> NoKey]
    /\ total_pages' = 1
    /\ page_pc' = <<>>
    /\ page_out' = <<>>
    /\ page_products' = <<>>
    /\ goods' = <<>>
    /\ list_requests' = <<>>
    /\ fetched' = <<>>
    /\ product_ids' = <<>>
    /\ pr_status' = "idle"
    /\ unique_offers' = <<>>
    /\ batches' = <<>>
    /\ b_pc' = <<>>
    /\ b_out' = <<>>
    /\ permits' = MAX_CONCURRENT_REQUESTS
    /\ prices' = EmptyDict
    /\ requests' = <<>>
    /\ srv' = EmptyDict
    /\ pr_result' = EmptyDict
    /\ UNCHANGED <<min_goods, msg_products, msg_data, result, kinds>>
    /\ UNCHANGED <<cvars, dvars, mvars, rvars, gvars, qvars>>

\* fetch_prices_task is delivered again, with the products it was sent before
RedeliverPrices ==
    /\ stage = "DONE"
    /\ e_redelivered = "none"
    /\ e_redelivered' = "price"
    /\ e_first' = Snapshot
    /\ stage' = "PRICE_PENDING"
    /\ product_ids' = <<>>
    /\ pr_status' = "idle"
    /\ unique_offers' = <<>>
    /\ batches' = <<>>
    /\ b_pc' = <<>>
    /\ b_out' = <<>>
    /\ permits' = MAX_CONCURRENT_REQUESTS
    /\ prices' = EmptyDict
    /\ requests' = <<>>
    /\ srv' = EmptyDict
    /\ pr_result' = EmptyDict
    /\ UNCHANGED <<min_goods, f_pc, meta, total_pages, page_pc, page_out, page_products,
                   goods, list_requests, fetched, msg_products, msg_data, result, kinds>>
    /\ UNCHANGED <<cvars, dvars, mvars, rvars, gvars, qvars>>

\* combine_products_and_prices_task is delivered again, with the same data
RedeliverCombine ==
    /\ stage = "DONE"
    /\ e_redelivered = "none"
    /\ e_redelivered' = "combine"
    /\ e_first' = Snapshot
    /\ stage' = "COMBINE_PENDING"
    /\ UNCHANGED <<min_goods, f_pc, meta, total_pages, page_pc, page_out, page_products,
                   goods, list_requests, fetched, msg_products, msg_data, result>>
    /\ UNCHANGED <<pvars, cvars, dvars, mvars, rvars, gvars, qvars>>

\* combine_product_and_prices is called again on the list it returned, with
\* the same prices
CombineAgain ==
    /\ c_pc = "done"
    /\ c_result' = combine_product_and_prices(c_result, c_prices)
    /\ c_pc' = "done_twice"
    /\ UNCHANGED <<c_products, c_prices>>
    /\ UNCHANGED <<fvars, pvars, xvars>>

\* the steps of the chain at which the remote side answers, with the answers
\* of a second execution held to those of the first
SameMetaInvalid == MetaInvalid /\ AnswersAgree'
SameMetaOk == MetaOk /\ AnswersAgree'
SamePage1Respond == Page1Respond /\ AnswersAgree'
SamePageStep == PageStep /\ AnswersAgree'
SameBatchStep == BatchStep /\ AnswersAgree'

----------------------------------------------------------------------------
(* Request signing: utils.get_sign *)

MaxSignLen == 3

\* the keys of the params that fetch_products signs
SignKeys == {"category_id", "count", "page", "token"}

\* a dict keeps its items in insertion order: one entry per key
Entry(k, v) == [key |-> k, value |-> v]

Keys(d) == {d[i].key : i \in DOMAIN d}

IsDict(d) == \A i, j \in DOMAIN d : d[i].key = d[j].key => i = j

\* data.values(), in insertion order
Values(d) == [i \in DOMAIN d |-> d[i].value]

\* the digests of single values are the numbers below DigestSpace
DigestSpace == 11

\* md5(str(i).encode()).hexdigest(): distinct values have distinct digests,
\* whose order is not the order of the values
md5(i) == (i * 7 + 3) % DigestSpace

SALT == 1

\* md5((SALT + ''.join(elements)).encode()).hexdigest(): the digest of the
\* string that starts with SALT and lists the elements in their order
RECURSIVE md5_joined(_)
md5_joined(elements) ==
    IF elements = <<>> THEN SALT
    ELSE md5_joined(SubSeq(elements, 1, Len(elements) - 1)) * DigestSpace
         + elements[Len(elements)]

\* get_sign that leaves out elements.sort()
get_sign_unsorted(data) ==
    LET elements == [i \in DOMAIN data |-> md5(Values(data)[i])]
    IN md5_joined(elements)

get_sign(data) ==
    LET elements == [i \in DOMAIN data |-> md5(Values(data)[i])]
        sorted == SortSeq(elements, LAMBDA a, b : a < b)
    IN md5_joined(sorted)

\* the first call: get_sign(data)
SignCall ==
    /\ sg_pc = "ready"
    /\ sg_sign' = get_sign(sg_data)
    /\ sg_pc' = "half"
    /\ UNCHANGED <<gframe, sg_data, sg_other, sg_sign_other>>

\* the second call: get_sign of the dict built in the other order
SignCallReordered ==
    /\ sg_pc = "half"
    /\ sg_sign_other' = get_sign(sg_other)
    /\ sg_pc' = "signed"
    /\ UNCHANGED <<gframe, sg_data, sg_other, sg_sign>>

----------------------------------------------------------------------------
(* The params dict that the page coroutines of parser.fetch_products share *)

\* d[k] = v: a key the dict holds keeps its place, a new key comes last
ItemSet(d, k, v) ==
    IF k \in Keys(d)
    THEN [i \in DOMAIN d |-> IF d[i].key = k THEN Entry(k, v) ELSE d[i]]
    ELSE Append(d, Entry(k, v))

\* del d[k]
ItemDel(d, k) == SelectSeq(d, LAMBDA e : e.key # k)

\* d[k]
ItemGet(d, k) == d[CHOOSE i \in DOMAIN d : d[i].key = k].value

\* params = {k: v for k, v in params.items() if v is not None}
WithoutNone(d) == SelectSeq(d, LAMBDA e : e.value # PyNone)

\* the token get_token returns: None when the answer holds no 'data'
Tokens == {PyNone, MaxParamValue}

\* the params fetch_products builds, signed
NewParams(category_id, count, token) ==
    LET built == <<Entry("category_id", category_id), Entry("count", count),
                   Entry("page", 1), Entry("token", token)>>
    IN ItemSet(built, "sign", get_sign(built))

\* params['page'] = page; del params['sign']; params['sign'] = get_sign(params)
Resign(d, page) ==
    LET paged == ItemSet(d, "page", page)
        unsigned == ItemDel(paged, "sign")
    IN ItemSet(unsigned, "sign", get_sign(unsigned))

\* fetch_products up to its first request
SharedParamsCall ==
    /\ fp_pc = "start"
    /\ \E category_id \in ParamValues, count \in ParamValues, token \in Tokens :
          fp_params' = NewParams(category_id, count, token)
    /\ fp_pc' = "meta"
    /\ UNCHANGED <<qframe, fp_total_pages, fp_task, fp_copy, fp_attempt, fp_sent>>

\* the first response is invalid or fails the stock test: no page is fetched
TotalsInvalid ==
    /\ fp_pc = "meta"
    /\ fp_pc' = "returned"
    /\ UNCHANGED <<qframe, fp_params, fp_total_pages, fp_task, fp_copy, fp_attempt, fp_sent>>

\* fetch_and_add_products from its start to the request of its fetch_data:
\* the shared dict after it, and the copy fetch_data sends
AddProductsBegin(p) ==
    LET shared == Resign(fp_params, p)
        local == WithoutNone(shared)
    IN /\ fp_params' = shared
       /\ fp_task' = [q \in DOMAIN fp_task \cup {p} |-> IF q = p THEN "request" ELSE fp_task[q]]
       /\ fp_copy' = [q \in DOMAIN fp_copy \cup {p} |-> IF q = p THEN local ELSE fp_copy[q]]
       /\ fp_attempt' = [q \in DOMAIN fp_attempt \cup {p} |-> IF q = p THEN 0 ELSE fp_attempt[q]]
       /\ fp_sent' = [q \in DOMAIN fp_sent \cup {p} |->
                         IF q # p THEN fp_sent[q]
                         ELSE IF p \in DOMAIN fp_sent
                              THEN Append(fp_sent[p], [attempt |-> 0, params |-> local])
                              ELSE <<[attempt |-> 0, params |-> local]>>]

\* the first response passes: total_pages is read and page 1 is awaited
TotalsRespond ==
    /\ fp_pc = "meta"
    /\ \E pages \in 0..MaxPages : fp_total_pages' = pages
    /\ AddProductsBegin(1)
    /\ fp_pc' = "page1"
    /\ UNCHANGED qframe

\* page 1 is done: the coroutines of the other pages are gathered
GatherPages ==
    /\ fp_pc = "page1"
    /\ fp_task[1] = "done"
    /\ fp_pc' = "gather"
    /\ fp_task' = [q \in 1..(IF fp_total_pages < 1 THEN 1 ELSE fp_total_pages) |->
                      IF q = 1 THEN "done" ELSE "none"]
    /\ UNCHANGED <<qframe, fp_params, fp_total_pages, fp_copy, fp_attempt, fp_sent>>

\* the event loop starts the coroutine of page p
AddProductsCall(p) ==
    /\ fp_pc = "gather"
    /\ fp_task[p] = "none"
    /\ AddProductsBegin(p)
    /\ UNCHANGED <<qframe, fp_pc, fp_total_pages>>

\* the request of page p ends with a response
AddProductsRespond(p) ==
    /\ fp_pc \in {"page1", "gather"}
    /\ fp_task[p] = "request"
    /\ fp_task' = [fp_task EXCEPT ![p] = "done"]
    /\ UNCHANGED <<qframe, fp_pc, fp_params, fp_total_pages, fp_copy, fp_attempt, fp_sent>>

\* the request of page p ends with an aiohttp.ClientError
AddProductsClientError(p) ==
    /\ fp_pc \in {"page1", "gather"}
    /\ fp_task[p] = "request"
    /\ fp_attempt' = [fp_attempt EXCEPT ![p] = @ + 1]
    /\ fp_task' = [fp_task EXCEPT ![p] = IF fp_attempt[p] + 1 < RETRIES THEN "sleep" ELSE "done"]
    /\ UNCHANGED <<qframe, fp_pc, fp_params, fp_total_pages, fp_copy, fp_sent>>

\* a fetch_data that sends the params of its caller as they are by then
AddProductsRetryShared(p) ==
    /\ fp_pc \in {"page1", "gather"}
    /\ fp_task[p] = "sleep"
    /\ fp_task' = [fp_task EXCEPT ![p] = "request"]
    /\ fp_sent' = [fp_sent EXCEPT ![p] = Append(@, [attempt |-> fp_attempt[p],
                                                    params |-> WithoutNone(fp_params)])]
    /\ UNCHANGED <<qframe, fp_pc, fp_params, fp_total_pages, fp_copy, fp_attempt>>

\* the end of asyncio.sleep(2): the next request of the same fetch_data call
AddProductsRetry(p) ==
    /\ fp_pc \in {"page1", "gather"}
    /\ fp_task[p] = "sleep"
    /\ fp_task' = [fp_task EXCEPT ![p] = "request"]
    /\ fp_sent' = [fp_sent EXCEPT ![p] = Append(@, [attempt |-> fp_attempt[p],
                                                    params |-> fp_copy[p]])]
    /\ UNCHANGED <<qframe, fp_pc, fp_params, fp_total_pages, fp_copy, fp_attempt>>

\* the request of page p raises what fetch_data does not catch: the await of
\* page 1, or gather, raises in fetch_products
AddProductsOtherError(p) ==
    /\ fp_pc \in {"page1", "gather"}
    /\ fp_task[p] = "request"
    /\ fp_task' = [fp_task EXCEPT ![p] = "raised"]
    /\ fp_pc' = "raised"
    /\ UNCHANGED <<qframe, fp_params, fp_total_pages, fp_copy, fp_attempt, fp_sent>>

\* gather is complete
SharedParamsReturn ==
    /\ fp_pc = "gather"
    /\ \A q \in DOMAIN fp_task : fp_task[q] = "done"
    /\ fp_pc' = "returned"
    /\ UNCHANGED <<qframe, fp_params, fp_total_pages, fp_task, fp_copy, fp_attempt, fp_sent>>

AddProductsStep ==
    \E p \in DOMAIN fp_task :
        \/ AddProductsCall(p)
        \/ AddProductsRespond(p)
        \/ AddProductsClientError(p)
        \/ AddProductsRetry(p)
        \/ AddProductsOtherError(p)

----------------------------------------------------------------------------
(* Specifications *)

Iota(n) == [i \in 1..n |-> i]

SeqsUpTo(S, n) == UNION {[1..k -> S] : k \in 0..n}

FetchIdle ==
    /\ f_pc = "idle"
    /\ meta = [valid |-> FALSE, total_pages |-> NoKey, total_items |-> NoKey]
    /\ total_pages = 1
    /\ page_pc = <<>>
    /\ page_out = <<>>
    /\ page_products = <<>>
    /\ goods = <<>>
    /\ list_requests = <<>>
    /\ fetched = <<>>
    /\ msg_products = <<>>
    /\ msg_data = [products |-> <<>>, prices |-> EmptyDict]
    /\ result = <<>>

NoChain ==
    /\ stage = "NONE"
    /\ min_goods = 0
    /\ FetchIdle

PricesIdle ==
    /\ pr_status = "idle"
    /\ unique_offers = <<>>
    /\ batches = <<>>
    /\ b_pc = <<>>
    /\ b_out = <<>>
    /\ permits = MAX_CONCURRENT_REQUESTS
    /\ prices = EmptyDict
    /\ requests = <<>>
    /\ srv = EmptyDict
    /\ pr_result = EmptyDict

CombineIdle ==
    /\ c_pc = "idle"
    /\ c_products = <<>>
    /\ c_prices = EmptyDict
    /\ c_result = <<>>

MainIdle ==
    /\ m_pc = "idle"
    /\ m_raised_at = "none"
    /\ m_products = <<>>
    /\ filename = <<>>
    /\ save_dispatched = 0
    /\ s_pc = "none"
    /\ writers_run = <<>>

RunsIdle ==
    /\ r_pair = <<>>
    /\ r_stage = <<>>
    /\ r_queue = {}
    /\ r_sent = {}
    /\ r_result = <<>>

NoRedelivery ==
    /\ e_redelivered = "none"
    /\ e_first = NoSnapshot

SignIdle ==
    /\ sg_pc = "idle"
    /\ sg_data = <<>>
    /\ sg_other = <<>>
    /\ sg_sign = 0
    /\ sg_sign_other = 0

SharedParamsIdle ==
    /\ fp_pc = "idle"
    /\ fp_params = <<>>
    /\ fp_total_pages = 0
    /\ fp_task = <<>>
    /\ fp_copy = <<>>
    /\ fp_attempt = <<>>
    /\ fp_sent = <<>>

FetchDataIdle ==
    /\ fd_pc = "idle"
    /\ params = EmptyDict
    /\ attempt = 0
    /\ fd_requests = <<>>
    /\ fd_outcomes = <<>>
    /\ fd_return = "none"

\* one run of the chain, as get_products_with_prices submits it
Init ==
    /\ stage = "FETCH_PENDING"
    /\ min_goods \in 0..MaxGoods
    /\ FetchIdle
    /\ product_ids = <<>>
    /\ kinds = AllKinds
    /\ PricesIdle
    /\ CombineIdle
    /\ FetchDataIdle
    /\ MainIdle
    /\ RunsIdle
    /\ NoRedelivery
    /\ SignIdle
    /\ SharedParamsIdle

Next ==
    \/ FetchTaskStart
    \/ MetaInvalid
    \/ MetaOk
    \/ Page1Respond
    \/ PageStep
    \/ FetchProductsReturn
    \/ FetchRaise
    \/ PricesTaskStart
    \/ BatchStep
    \/ PricesTaskReturn
    \/ PricesTaskRaise
    \/ CombineTask

Spec == Init /\ [][Next]_vars

\* the first task of the chain alone: fetch_products_task
NextFetch ==
    \/ FetchTaskStart
    \/ MetaInvalid
    \/ MetaOk
    \/ Page1Respond
    \/ PageStep
    \/ FetchProductsReturn
    \/ FetchRaise

SpecFetch == Init /\ [][NextFetch]_vars

\* fetch_prices on 0..MaxRichId distinct ids, against every server answer
InitPrices ==
    /\ NoChain
    /\ \E n \in 0..MaxRichId : product_ids = Iota(n)
    /\ kinds = AllKinds
    /\ PricesIdle
    /\ CombineIdle
    /\ FetchDataIdle
    /\ MainIdle
    /\ RunsIdle
    /\ NoRedelivery
    /\ SignIdle
    /\ SharedParamsIdle

\* fetch_prices on every short id sequence, duplicates included, and on MaxId
\* distinct ids (more tasks than permits), against a server that prices each id
BatchInputs ==
    SeqsUpTo(1..MaxBatchId, MaxLen) \cup {Iota(MaxId), Iota(MaxId) \o <<1>>}

InitBatch ==
    /\ NoChain
    /\ product_ids \in BatchInputs
    /\ kinds = {"own"}
    /\ PricesIdle
    /\ CombineIdle
    /\ FetchDataIdle
    /\ MainIdle
    /\ RunsIdle
    /\ NoRedelivery
    /\ SignIdle
    /\ SharedParamsIdle

\* combine_product_and_prices on every short product list and price dict
CombineProducts ==
    {[Product(id, "title" \o ToString(id), "link" \o ToString(id), brand)
        EXCEPT !.regular_price = r] :
        id \in 1..MaxCombineId, brand \in {"Unknown", "acme"}, r \in {0, 7}}

PriceInfos ==
    {[regular_price |-> 15, promo_price |-> 10], [regular_price |-> 25], EmptyDict}

CombineKeys == {PyInt(id) : id \in 1..MaxCombineId} \cup {PyStr("1")}

CombinePrices == UNION {[K -> PriceInfos] : K \in SUBSET CombineKeys}

InitCombine ==
    /\ NoChain
    /\ product_ids = <<>>
    /\ kinds = {}
    /\ PricesIdle
    /\ c_pc = "ready"
    /\ c_products \in SeqsUpTo(CombineProducts, MaxCombineLen)
    /\ c_prices \in CombinePrices
    /\ c_result = <<>>
    /\ FetchDataIdle
    /\ MainIdle
    /\ RunsIdle
    /\ NoRedelivery
    /\ SignIdle
    /\ SharedParamsIdle

NextCombine == Combine

NextPrices ==
    \/ FetchPricesStart
    \/ BatchStep
    \/ FetchPricesReturn
    \/ FetchPricesRaise

SpecPrices == InitPrices /\ [][NextPrices]_vars
SpecBatch == InitBatch /\ [][NextPrices]_vars
SpecCombine == InitCombine /\ [][NextCombine]_vars

\* fetch_prices on up to MaxId distinct ids (more tasks than permits), against
\* a server that prices each id; a request may still give nothing or raise
InitPermits ==
    /\ NoChain
    /\ \E n \in 0..MaxId : product_ids = Iota(n)
    /\ kinds = {"own"}
    /\ PricesIdle
    /\ CombineIdle
    /\ FetchDataIdle
    /\ MainIdle
    /\ RunsIdle
    /\ NoRedelivery
    /\ SignIdle
    /\ SharedParamsIdle

\* the event loop runs a handler that can go on, every request and every
\* sleep ends, and fetch_prices goes on when gather is done
SpecPermits ==
    /\ InitPermits
    /\ [][NextPrices]_vars
    /\ WF_vars(FetchPricesStart)
    /\ WF_vars(BatchStep)
    /\ WF_vars(FetchPricesReturn)
    /\ WF_vars(FetchPricesRaise)

\* one call of fetch_data on every params dict over ParamKeys
InitFetchData ==
    /\ NoChain
    /\ product_ids = <<>>
    /\ kinds = AllKinds
    /\ PricesIdle
    /\ CombineIdle
    /\ fd_pc = "idle"
    /\ params \in [ParamKeys -> ParamValues \cup {PyNone}]
    /\ attempt = 0
    /\ fd_requests = <<>>
    /\ fd_outcomes = <<>>
    /\ fd_return = "none"
    /\ MainIdle
    /\ RunsIdle
    /\ NoRedelivery
    /\ SignIdle
    /\ SharedParamsIdle

NextFetchData ==
    \/ FetchDataCall
    \/ Response200
    \/ ResponseStatus
    \/ RequestClientError
    \/ RetryRequest
    \/ RequestOtherError

SpecFetchData == InitFetchData /\ [][NextFetchData]_vars

\* one run of main: the chain is submitted and main waits for its result
InitMain ==
    /\ stage = "FETCH_PENDING"
    /\ min_goods \in 0..MaxGoods
    /\ FetchIdle
    /\ product_ids = <<>>
    /\ kinds = AllKinds
    /\ PricesIdle
    /\ CombineIdle
    /\ FetchDataIdle
    /\ m_pc = "waiting"
    /\ m_raised_at = "none"
    /\ m_products = <<>>
    /\ filename = <<>>
    /\ save_dispatched = 0
    /\ s_pc = "none"
    /\ writers_run = <<>>
    /\ RunsIdle
    /\ NoRedelivery
    /\ SignIdle
    /\ SharedParamsIdle

NextMain ==
    \/ FetchTaskStart
    \/ MetaInvalid
    \/ MetaOk
    \/ Page1Respond
    \/ PageStep
    \/ FetchProductsReturn
    \/ FetchRaise
    \/ PricesTaskStart
    \/ BatchStep
    \/ PricesTaskReturn
    \/ PricesTaskRaise
    \/ CombineTask
    \/ MainGetResult
    \/ MainChainFailed
    \/ MainWaitTimeout
    \/ SaveProductsTask
    \/ MainSaveDone
    \/ MainSaveTimeout

SpecMain == InitMain /\ [][NextMain]_vars

\* result.get(timeout=300) does not block for ever: it raises the failure of
\* the chain, or TimeoutError when the 300 seconds are over
SpecMainFair == SpecMain /\ WF_vars(MainChainFailed) /\ WF_vars(MainWaitTimeout)

\* two calls of get_products_with_prices for different (city, category) pairs
InitRuns ==
    /\ NoChain
    /\ product_ids = <<>>
    /\ kinds = AllKinds
    /\ PricesIdle
    /\ CombineIdle
    /\ FetchDataIdle
    /\ MainIdle
    /\ r_pair \in {f \in [Runs -> Pairs] : f[1] # f[2]}
    /\ r_stage = [r \in Runs |-> "NONE"]
    /\ r_queue = {}
    /\ r_sent = {}
    /\ r_result = [r \in Runs |-> <<>>]
    /\ NoRedelivery
    /\ SignIdle
    /\ SharedParamsIdle

NextRuns ==
    \/ \E r \in Runs : Submit(r)
    \/ RunFetchTask
    \/ RunPricesTask
    \/ RunCombineTask

SpecRuns == InitRuns /\ [][NextRuns]_vars

\* one run of the chain in which a task message may be delivered twice, or
\* one call of the combiner that may be repeated on its own result
InitDup ==
    /\ \/ /\ stage = "FETCH_PENDING"
          /\ min_goods \in 0..MaxGoods
          /\ kinds = AllKinds
          /\ CombineIdle
       \/ /\ stage = "NONE"
          /\ min_goods = 0
          /\ kinds = {}
          /\ c_pc = "ready"
          /\ c_products \in SeqsUpTo(CombineProducts, MaxCombineLen)
          /\ c_prices \in CombinePrices
          /\ c_result = <<>>
    /\ FetchIdle
    /\ product_ids = <<>>
    /\ PricesIdle
    /\ FetchDataIdle
    /\ MainIdle
    /\ RunsIdle
    /\ NoRedelivery
    /\ SignIdle
    /\ SharedParamsIdle

NextDup ==
    \/ FetchTaskStart
    \/ SameMetaInvalid
    \/ SameMetaOk
    \/ SamePage1Respond
    \/ SamePageStep
    \/ FetchProductsReturn
    \/ FetchRaise
    \/ PricesTaskStart
    \/ SameBatchStep
    \/ PricesTaskReturn
    \/ PricesTaskRaise
    \/ CombineTask
    \/ RedeliverFetch
    \/ RedeliverPrices
    \/ RedeliverCombine
    \/ Combine
    \/ CombineAgain

SpecDup == InitDup /\ [][NextDup]_vars

\* no chain, no call of any stage, no caller
Quiet ==
    /\ NoChain
    /\ product_ids = <<>>
    /\ kinds = AllKinds
    /\ PricesIdle
    /\ CombineIdle
    /\ FetchDataIdle
    /\ MainIdle
    /\ RunsIdle
    /\ NoRedelivery

\* every dict of at most MaxSignLen items over SignKeys
SignInputs ==
    {d \in SeqsUpTo([key : SignKeys, value : PyNone..MaxParamValue], MaxSignLen) : IsDict(d)}

\* the dicts that hold the items of d, inserted in any order
Reorderings(d) == {[i \in DOMAIN d |-> d[p[i]]] : p \in Perms(DOMAIN d)}

\* get_sign called on a dict and on a dict with the same items
InitSign ==
    /\ Quiet
    /\ sg_pc = "ready"
    /\ sg_data \in SignInputs
    /\ sg_other \in Reorderings(sg_data)
    /\ sg_sign = 0
    /\ sg_sign_other = 0
    /\ SharedParamsIdle

NextSign ==
    \/ SignCall
    \/ SignCallReordered

\* the product records a price task may receive
StageProducts ==
    {asdict(Product(id, "title" \o ToString(id), "link" \o ToString(id), brand)) :
        id \in 1..MaxRichId, brand \in {"Unknown", "acme"}}

\* the price task of a chain, on every list of at most MaxRichId records
InitPriceStage ==
    /\ stage = "PRICE_PENDING"
    /\ min_goods = 0
    /\ f_pc = "returned"
    /\ meta = [valid |-> FALSE, total_pages |-> NoKey, total_items |-> NoKey]
    /\ total_pages = 1
    /\ page_pc = <<>>
    /\ page_out = <<>>
    /\ page_products = <<>>
    /\ goods = <<>>
    /\ list_requests = <<>>
    /\ fetched = <<>>
    /\ msg_products \in SeqsUpTo(StageProducts, MaxRichId)
    /\ msg_data = [products |-> <<>>, prices |-> EmptyDict]
    /\ result = <<>>
    /\ product_ids = <<>>
    /\ kinds = {"own", "absent"}
    /\ PricesIdle
    /\ CombineIdle
    /\ FetchDataIdle
    /\ MainIdle
    /\ RunsIdle
    /\ NoRedelivery
    /\ SignIdle
    /\ SharedParamsIdle

NextPriceStage ==
    \/ PricesTaskStart
    \/ BatchStep
    \/ PricesTaskReturn
    \/ PricesTaskRaise

SpecPriceStage == InitPriceStage /\ [][NextPriceStage]_vars

SpecSign == InitSign /\ [][NextSign]_vars

\* one call of fetch_products, seen from its params dict
InitSharedParams ==
    /\ Quiet
    /\ SignIdle
    /\ fp_pc = "start"
    /\ fp_params = <<>>
    /\ fp_total_pages = 0
    /\ fp_task = <<>>
    /\ fp_copy = <<>>
    /\ fp_attempt = <<>>
    /\ fp_sent = <<>>

NextSharedParams ==
    \/ SharedParamsCall
    \/ TotalsInvalid
    \/ TotalsRespond
    \/ GatherPages
    \/ AddProductsStep
    \/ SharedParamsReturn

SpecSharedParams == InitSharedParams /\ [][NextSharedParams]_vars

----------------------------------------------------------------------------
(* Properties *)

\* the ids of the items the remote side listed as available on page p
AvailableIds(p) == {goods[p][j].id : j \in {j \in DOMAIN goods[p] : goods[p][j].isAvailable}}

OkPages == {p \in DOMAIN page_out : page_out[p] = "ok"}

GatePassed == meta.valid /\ Get(meta.total_items, 0) > min_goods

\* the ids of the Product elements of a list
ProductIdsOf(list) == {list[i].id : i \in {i \in DOMAIN list : list[i].cls = "Product"}}

RecordIdsOf(list) == {list[i].id : i \in DOMAIN list}

\* C1: in a run whose stock gate passed, every item listed as available on a
\* page that was fetched successfully is a record of the chain's result.
C1_EveryDiscoveredProductInResult ==
    (stage = "DONE" /\ GatePassed) =>
        \A p \in OkPages : AvailableIds(p) \subseteq RecordIdsOf(result)

\* C2: in a finished run, every product whose id is a key of the dict
\* fetch_prices returned carries the prices of that record.
C2_PricedFromRecord ==
    stage = "DONE" =>
        \A i \in DOMAIN result :
            PyInt(result[i].id) \in DOMAIN pr_result =>
                /\ result[i].regular_price = pr_result[PyInt(result[i].id)].regular_price
                /\ result[i].promo_price = pr_result[PyInt(result[i].id)].promo_price

\* C3: combine_product_and_prices returns as many products as it was given,
\* with the same ids in the same order, priced or not.
C3_CombineKeepsLengthAndOrder ==
    c_pc = "done" =>
        /\ Len(c_result) = Len(c_products)
        /\ \A i \in 1..Len(c_products) : c_result[i].id = c_products[i].id

C3_Witness ==
    /\ c_pc = "done"
    /\ Len(c_products) = MaxCombineLen
    /\ PyInt(c_products[1].id) \notin DOMAIN c_prices
    /\ c_products[1].regular_price = 0
    /\ PyInt(c_products[2].id) \in DOMAIN c_prices

\* C4: combine_product_and_prices leaves a product without a price record as
\* it was, and leaves id, name, link and brand of every product as they were.
C4_CombineFrame ==
    c_pc = "done" =>
        \A i \in 1..Len(c_products) :
            /\ i \in DOMAIN c_result
            /\ PyInt(c_products[i].id) \notin DOMAIN c_prices => c_result[i] = c_products[i]
            /\ c_result[i].id = c_products[i].id
            /\ c_result[i].name = c_products[i].name
            /\ c_result[i].link = c_products[i].link
            /\ c_result[i].brand = c_products[i].brand

C4_Witness ==
    /\ c_pc = "done"
    /\ \E i, j \in 1..Len(c_products) :
          /\ PyInt(c_products[i].id) \notin DOMAIN c_prices
          /\ c_products[i].regular_price # 0
          /\ PyInt(c_products[j].id) \in DOMAIN c_prices
          /\ c_result[j] # c_products[j]

C6_FailedPageLosesOnlyItsItems ==
    (f_pc = "returned" /\ GatePassed
        /\ \E p \in 2..total_pages : page_out[p] \in {"empty", "malformed"}) =>
        ProductIdsOf(fetched) = UNION {AvailableIds(p) : p \in OkPages}

InFlight == {b \in Tasks : b_pc[b] = "request"}

\* C7: at most MAX_CONCURRENT_REQUESTS price requests are in flight at once.
C7_InFlightBounded == Cardinality(InFlight) <= MAX_CONCURRENT_REQUESTS

C7_Witness ==
    /\ Cardinality(InFlight) = MAX_CONCURRENT_REQUESTS
    /\ \E b \in Tasks : b_pc[b] = "wait"

HasDuplicates(s) == \E i, j \in DOMAIN s : i # j /\ s[i] = s[j]

\* C8: the batches are pairwise disjoint, none repeats an id, together they
\* hold exactly the distinct input ids; a task sends its batch at most once,
\* and exactly once when fetch_prices returns.
C8_EachIdInOneBatch ==
    pr_status # "idle" =>
        /\ \A b, c \in Tasks : b # c => Range(batches[b]) \cap Range(batches[c]) = {}
        /\ \A b \in Tasks : ~HasDuplicates(batches[b])
        /\ UNION {Range(batches[b]) : b \in Tasks} = Range(product_ids)
        /\ \A b \in Tasks :
              /\ Len(requests[b]) <= 1
              /\ \A r \in DOMAIN requests[b] : requests[b][r] = batches[b]
        /\ pr_status = "returned" => \A b \in Tasks : Len(requests[b]) = 1

C8_Witness ==
    /\ pr_status = "returned"
    /\ HasDuplicates(product_ids)
    /\ Cardinality(Tasks) >= 2

\* the least k with k * BATCH_SIZE >= n
CeilDiv(n) == CHOOSE k \in 0..n : k * BATCH_SIZE >= n /\ (k = 0 \/ (k - 1) * BATCH_SIZE < n)

\* C9: n distinct ids give ceil(n / BATCH_SIZE) batches, each of at most
\* BATCH_SIZE ids and all but the last of exactly BATCH_SIZE; every batch is
\* requested once when fetch_prices returns, and no id gives no batch.
C9_BatchCountAndSizes ==
    pr_status # "idle" =>
        /\ Len(batches) = CeilDiv(Cardinality(Range(product_ids)))
        /\ \A b \in Tasks : Len(batches[b]) >= 1 /\ Len(batches[b]) <= BATCH_SIZE
        /\ \A b \in Tasks : b < Len(batches) => Len(batches[b]) = BATCH_SIZE
        /\ product_ids = <<>> => Len(batches) = 0
        /\ pr_status = "returned" =>
              Cardinality({b \in Tasks : Len(requests[b]) = 1}) =
                  CeilDiv(Cardinality(Range(product_ids)))

C9_Witness ==
    /\ pr_status = "returned"
    /\ Len(batches) = 3
    /\ Len(batches[3]) < BATCH_SIZE

\* the active_offer_id the remote side returned for a requested id (NoOffer
\* when it returned none)
ReturnedOffer(id) ==
    IF srv[id] = "absent" THEN NoOffer ELSE ServerProduct(id, srv[id]).active_offer_id

\* C10: the dict fetch_prices returns is keyed by the active_offer_id values
\* the remote side returned: an id returned in a processed response is a key
\* although the batch did not ask for it, and an id that was asked for but not
\* returned as active_offer_id is no key.
C10_KeyedByActiveOfferId ==
    pr_status = "returned" =>
        /\ \A b \in Tasks : b_out[b] = "ok" =>
              \A id \in Range(batches[b]) :
                  ReturnedOffer(id) # NoOffer => PyInt(ReturnedOffer(id)) \in DOMAIN pr_result
        /\ \A key \in DOMAIN pr_result :
              \E id \in DOMAIN srv : ReturnedOffer(id) # NoOffer /\ key = PyInt(ReturnedOffer(id))

C10_Witness ==
    /\ pr_status = "returned"
    /\ PyInt(ForeignId) \in DOMAIN pr_result
    /\ \E id \in Range(product_ids) : PyInt(id) \notin DOMAIN pr_result
    /\ \A b \in Tasks : ForeignId \notin Range(batches[b])

\* the batches whose request gave no processed response
FailedBatches == {b \in Tasks : b_out[b] \in {"empty", "raise", "broke"}}

\* C11: a price batch that fails (fetch_data gives the empty result or raises,
\* or processing the response raises) does not end fetch_prices with an
\* exception, is not requested again, and the dict fetch_prices returns holds
\* the price records of every batch that was processed.
C11_FailedBatchLosesOnlyItself ==
    /\ \A b \in Tasks : b_out[b] # "none" => b_pc[b] \in {"sleep", "done", "cancelled"}
    /\ pr_status \in {"raising", "raised"} => \E b \in Tasks : b_pc[b] = "failed"
    /\ \A b \in Tasks : Len(requests[b]) <= 1
    /\ pr_status = "returned" =>
          \A b \in Tasks : b_out[b] = "ok" =>
              \A id \in Range(batches[b]) :
                  /\ srv[id] = "own" =>
                        /\ PyInt(id) \in DOMAIN pr_result
                        /\ pr_result[PyInt(id)] = QuoteOf(id)
                  /\ srv[id] = "foreign" =>
                        /\ PyInt(ForeignId) \in DOMAIN pr_result
                        /\ \E other \in DOMAIN srv :
                              /\ srv[other] = "foreign"
                              /\ pr_result[PyInt(ForeignId)] = QuoteOf(other)

C11_Witness ==
    /\ pr_status = "returned"
    /\ \E b \in FailedBatches, o \in Tasks \ FailedBatches :
          /\ Len(requests[b]) = 1
          /\ \E id \in Range(batches[o]) :
                srv[id] = "own" /\ pr_result[PyInt(id)] = QuoteOf(id)

\* the transport-level failures of a request: the connection fails or times out
TransportFailures == {"ClientConnectionError", "ServerTimeoutError", "TimeoutError"}

\* the call of fetch_data is over
FetchDataEnded == fd_pc \in {"returned", "raised"}

\* C12: one call of fetch_data issues at most RETRIES requests; a transport
\* failure (connection error, timeout) is followed by another request while
\* fewer than RETRIES requests have failed; after the RETRIES-th transport
\* failure in a row the call returns the empty result without another request.
C12_AtMostRetriesAttempts ==
    /\ Len(fd_requests) <= RETRIES
    /\ \A i \in DOMAIN fd_outcomes :
          (fd_outcomes[i] \in TransportFailures /\ i < RETRIES) =>
              ~(FetchDataEnded /\ Len(fd_requests) = i)
    /\ (/\ Len(fd_outcomes) = RETRIES
        /\ \A i \in DOMAIN fd_outcomes : fd_outcomes[i] \in TransportFailures) =>
           /\ fd_pc = "returned"
           /\ fd_return = "empty"
           /\ Len(fd_requests) = RETRIES

\* C13: a call of fetch_data ends by returning the body or the empty result;
\* whatever the transport failure (connection error or timeout) and whatever
\* the response, no exception reaches the caller.
C13_NeverRaises ==
    /\ fd_pc # "raised"
    /\ fd_pc = "returned" => fd_return \in {"body", "empty"}

\* C14: a response whose status is not 200 makes fetch_data return the empty
\* result at once: it is the last request of the call, however many transport
\* failures came before it.
C14_StatusEndsCall ==
    \A i \in DOMAIN fd_outcomes :
        fd_outcomes[i] = "status" =>
            /\ i = Len(fd_outcomes)
            /\ Len(fd_requests) = i
            /\ fd_pc = "returned"
            /\ fd_return = "empty"
            /\ attempt = i - 1

C14_Witness ==
    /\ fd_pc = "returned"
    /\ Len(fd_outcomes) = RETRIES - 1
    /\ fd_outcomes[1] \in ClientErrors
    /\ fd_outcomes[RETRIES - 1] = "status"

\* C15: the stages run in the order fetch, price, combine: the price stage
\* starts only after the fetch stage returned and gets exactly its return
\* value, the combine stage starts only after the price stage returned and
\* gets exactly its return value (products, prices), no stage is skipped, and
\* the chain is DONE only after the combine stage.
C15_StagesInOrderWithReturnValues ==
    /\ stage = "FETCH_PENDING" => pr_status = "idle" /\ result = <<>>
    /\ stage \in {"PRICE_PENDING", "COMBINE_PENDING", "DONE"} =>
          /\ f_pc = "returned"
          /\ msg_products = FetchTaskResult(fetched)
    /\ pr_status # "idle" => product_ids = MapSeq(ProductId, FetchTaskResult(fetched))
    /\ stage = "PRICE_PENDING" => pr_status # "returned" /\ result = <<>>
    /\ stage \in {"COMBINE_PENDING", "DONE"} =>
          /\ pr_status = "returned"
          /\ msg_data = [products |-> msg_products, prices |-> pr_result]
    /\ stage = "DONE" => result = CombineTaskResult(msg_data)

\* a stage handler of the run ended with an exception
StageFailed == f_pc = "raised" \/ pr_status = "raised"

\* C17: once a stage has failed, the chain runs nothing more (the failed stage
\* is not executed again and no later stage is executed), and the caller's
\* wait ends in the failure main reports, never in a result.
C17_FailedStageEndsRun ==
    /\ [](StageFailed =>
            /\ stage = "FAILED"
            /\ f_pc = "raised" => pr_status = "idle"
            /\ msg_data = [products |-> <<>>, prices |-> EmptyDict]
            /\ result = <<>>
            /\ m_pc \in {"waiting", "failed"}
            /\ m_products = <<>>
            /\ s_pc = "none")
    /\ [][StageFailed => UNCHANGED <<fvars, pvars, cvars>>]_vars
    /\ StageFailed ~> (m_pc = "failed" /\ m_raised_at = "result.get")

C17_Witness ==
    /\ pr_status = "raised"
    /\ f_pc = "returned"
    /\ m_pc = "failed"
    /\ m_raised_at = "result.get"

\* C18: the save task is dispatched only after the chain gave its result to
\* the caller: not before the combine stage is done, not after the wait timed
\* out or the chain failed, not for an empty result; and at most once per run.
C18_SaveOnlyAfterNonEmptyResult ==
    /\ save_dispatched <= 1
    /\ (s_pc = "none") = (save_dispatched = 0)
    /\ save_dispatched = 1 =>
          /\ stage = "DONE"
          /\ result # <<>>
          /\ m_products = result
          /\ m_pc \in {"saving", "saved"} \/ m_raised_at = "save_result.get"
    /\ (m_raised_at = "result.get" \/ m_pc = "no_products") => save_dispatched = 0

C18_Witness ==
    /\ save_dispatched = 1
    /\ m_pc = "saved"
    /\ Len(result) = 2

\* C19: when save_products has completed for a file name whose extension is
\* json, csv or xlsx, the writer of that extension has been run with the
\* records; for another extension the task fails, the caller does not report
\* a successful save, and no writer is run.
C19_WriterMatchesExtension ==
    /\ (s_pc = "succeeded" /\ file_extension(filename) \in SupportedExtensions) =>
          writers_run = save_all(m_products, filename).run
    /\ (s_pc # "none" /\ file_extension(filename) \notin SupportedExtensions) =>
          /\ s_pc \in {"queued", "failed"}
          /\ m_pc # "saved"
          /\ writers_run = <<>>

\* C16: with two concurrent runs for different (city_id, category_id) pairs,
\* every task message of a run carries the routing key made from the run's own
\* pair, which differs from the key of the other run's message for the same
\* task, and the result of each run holds only products of its own pair.
C16_RunsKeptApart ==
    /\ \A m \in r_sent :
          /\ m.sig.routing_key =
                RoutingKey(m.sig.task, r_pair[m.run].city_id, r_pair[m.run].category_id)
          /\ \A o \in r_sent :
                (o.run # m.run /\ o.sig.task = m.sig.task) =>
                    o.sig.routing_key # m.sig.routing_key
    /\ \A r \in DOMAIN r_result :
          \A i \in DOMAIN r_result[r] :
              r_result[r][i].id = CatalogItemId(r_pair[r].city_id, r_pair[r].category_id)

\* C20: a second delivery of a stage's message, answered by the remote side
\* as the first was, leaves the result of the chain as the single delivery
\* gave it; and combining the combined records again with the same prices
\* gives the same records.
C20_DuplicateDeliveryKeepsResult ==
    /\ (e_redelivered # "none" /\ stage = "DONE") => result = e_first.result
    /\ c_pc = "done_twice" => c_result = combine_product_and_prices(c_products, c_prices)

C20_Witness ==
    /\ e_redelivered = "fetch"
    /\ stage = "DONE"
    /\ Len(result) = PerPage
    /\ srv # EmptyDict
    /\ total_pages > 1

\* C21: get_sign gives the same signature to any two dicts that hold the same
\* key/value pairs, whatever the order in which the pairs were inserted
C21_SignIgnoresInsertionOrder ==
    (/\ sg_pc = "signed"
     /\ Range(sg_data) = Range(sg_other)
     /\ Len(sg_data) = Len(sg_other))
    => sg_sign = sg_sign_other

\* two dicts of three items with three distinct values, inserted in
\* different orders, have both been signed
C21_Witness ==
    /\ sg_pc = "signed"
    /\ Len(sg_data) = MaxSignLen
    /\ sg_data # sg_other
    /\ Range(sg_data) = Range(sg_other)
    /\ Cardinality(Range(Values(sg_data))) = MaxSignLen
    /\ Values(sg_data) # Values(sg_other)

\* the requested ids for which the remote side returned active_offer_id key
ReturnedAs(key) == {id \in DOMAIN srv : ReturnedOffer(id) # NoOffer /\ key = PyInt(ReturnedOffer(id))}

\* C22: the batch handlers do not corrupt the dict they share: in every
\* interleaving, every active_offer_id returned to a batch that was processed
\* has a record (no write is lost), every record is, whole, the price record
\* some response returned for that id (no write is mixed), and fetch_prices
\* returns the dict as the handlers left it.
C22_SharedPricesNotCorrupted ==
    /\ \A b \in Tasks : b_out[b] = "ok" =>
          \A id \in Range(batches[b]) :
              ReturnedOffer(id) # NoOffer => PyInt(ReturnedOffer(id)) \in DOMAIN prices
    /\ \A key \in DOMAIN prices : \E id \in ReturnedAs(key) : prices[key] = QuoteOf(id)
    /\ pr_status = "returned" => pr_result = prices

\* two batches were processed, and the returned dict holds the records of both
C22_Witness ==
    /\ pr_status = "returned"
    /\ Cardinality(Tasks) = 2
    /\ \A b \in Tasks : b_out[b] = "ok"
    /\ \A id \in Range(product_ids) : srv[id] = "own"
    /\ Cardinality(DOMAIN pr_result) = 3

\* the params of the call for page p, before they are signed
PageParams(p) ==
    <<Entry("category_id", ItemGet(fp_params, "category_id")),
      Entry("count", ItemGet(fp_params, "count")),
      Entry("page", p),
      Entry("token", ItemGet(fp_params, "token"))>>

\* the coroutines whose fetch_data call asked for page number p
CallsWithPage(p) ==
    {q \in DOMAIN fp_sent :
        \E i \in DOMAIN fp_sent[q] :
            fp_sent[q][i].attempt = 0 /\ ItemGet(fp_sent[q][i].params, "page") = p}

\* C23: the page coroutines share one params dict, and still, in every
\* interleaving, every request for products carries the page number of its
\* own coroutine and the signature of that page's params without any earlier
\* signature, a retry carries what the first request of its call carried, no
\* page number is fetched by two calls, and when fetch_products returns every
\* page of 1..total_pages was fetched by exactly one call.
C23_PagesRequestedOnceWithOwnParams ==
    /\ \A p \in DOMAIN fp_sent : \A i \in DOMAIN fp_sent[p] :
          /\ ItemGet(fp_sent[p][i].params, "page") = p
          /\ ItemGet(fp_sent[p][i].params, "sign") = get_sign(PageParams(p))
          /\ fp_sent[p][i].params = fp_sent[p][1].params
          /\ fp_sent[p][i].attempt = i - 1
    /\ \A p \in 1..MaxPages : Cardinality(CallsWithPage(p)) <= 1
    /\ fp_pc = "returned" => \A p \in 1..fp_total_pages : Cardinality(CallsWithPage(p)) = 1

\* page 2 is requested again after the coroutine of page 3 has rewritten the
\* shared dict
C23_Witness ==
    /\ fp_pc = "gather"
    /\ fp_total_pages = MaxPages
    /\ fp_task[2] = "request"
    /\ Len(fp_sent[2]) > 1
    /\ ItemGet(fp_params, "page") = 3

\* the handlers inside async with semaphore
PermitHolders == {b \in Tasks : b_pc[b] \in {"request", "sleep"}}

\* every handler has its token and none has been served yet by more tasks
\* than there are permits
AllAtSemaphore ==
    /\ pr_status = "running"
    /\ Cardinality(Tasks) > MAX_CONCURRENT_REQUESTS
    /\ \A b \in Tasks : b_pc[b] = "wait"

\* C24: a permit is held only by a handler inside async with semaphore and is
\* given back on every way out of it, the except branch included; so with
\* more batches than permits, once the handlers wait for the semaphore every
\* batch gets a permit and sends its request and fetch_prices returns, and
\* every call of fetch_prices ends with all permits back.
C24_PermitsReleasedAndAllBatchesServed ==
    /\ [](permits + Cardinality(PermitHolders) = MAX_CONCURRENT_REQUESTS)
    /\ [](permits >= 0)
    /\ AllAtSemaphore ~>
          (/\ pr_status = "returned"
           /\ permits = MAX_CONCURRENT_REQUESTS
           /\ \A b \in Tasks : Len(requests[b]) = 1 /\ b_pc[b] = "done")
    /\ (pr_status = "running") ~> (pr_status \in {"returned", "raised"} /\ PermitHolders = {})

\* more batches than permits, a handler raised while it held a permit, and
\* fetch_prices returned
C24_Witness ==
    /\ pr_status = "returned"
    /\ Cardinality(Tasks) > MAX_CONCURRENT_REQUESTS
    /\ \E b \in Tasks : b_out[b] \in {"raise", "broke"}
    /\ permits = MAX_CONCURRENT_REQUESTS

\* C25: the price task leaves the product list alone: the first element of
\* what it returns is the list it received, the same records in the same
\* order with every field as received, whatever the price fetch gave, and the
\* task changes no record while it runs.
C25_PriceStageKeepsProducts ==
    /\ [](stage = "COMBINE_PENDING" =>
            /\ Len(msg_data.products) = Len(msg_products)
            /\ \A i \in DOMAIN msg_products : msg_data.products[i] = msg_products[i])
    /\ [][stage = "PRICE_PENDING" => msg_products' = msg_products]_vars

\* three records in two batches, every batch failed, and the task returned
C25_Witness ==
    /\ stage = "COMBINE_PENDING"
    /\ Len(msg_products) = 3
    /\ Cardinality(Tasks) = 2
    /\ \A b \in Tasks : b_out[b] \in {"empty", "raise"}
    /\ msg_data.prices = EmptyDict
    /\ msg_data.products # <<>>

====
